---- MODULE Spec2Model ----
(***************************************************************************)
(* Model of the AMC MCP server: the Playwright booking service             *)
(* (PlaywrightBookingService), the vendor API adapter (AMCClient) and the  *)
(* tool layer (MCPTools).                                                  *)
(*                                                                         *)
(* Every bookTickets call is a process that advances from one await to the *)
(* next; the shared state of the service is the browser handle and the     *)
(* session map.  The vendor web page is not under the program's control:   *)
(* what a page operation answers, and whether it throws, is chosen         *)
(* nondeterministically at every step.                                     *)
(***************************************************************************)
EXTENDS Integers, Sequences, FiniteSets, TLC

(* ----------------------------- bounds ---------------------------------- *)
MaxCalls == 2
MaxSeatCount == 2
NumEmails == 2
MaxTime == 1
MaxZipLen == 10
MaxTheaters == 2
MaxMovies == 2
MaxSuggestions == 2
MaxQuantity == 12

Calls == 1..MaxCalls
\* the seat map shows at most as many available seats as a caller may request
MaxAvailable == MaxSeatCount
Emails == 1..NumEmails

(* ------------------------ values of the environment -------------------- *)
\* messages of the errors Playwright throws
ErrorMessages == {"Timeout exceeded"}
\* text of the login error element
ErrorTexts == {"Invalid credentials"}

\* a JavaScript value of type string | null, as textContent() returns it
JsNull == [type |-> "null", value |-> ""]
JsString(s) == [type |-> "string", value |-> s]
ConfirmationTexts == {JsNull, JsString(""), JsString("CONF-001")}

\* a check that only tells null from a string
TruthyNotNull(v) == v.type = "string"

\* JavaScript truthiness of a string | null value
Truthy(v) == v.type = "string" /\ v.value # ""

(* ------------------------ template literals ---------------------------- *)
DigitChar(d) ==
  CASE d = 0 -> "0" [] d = 1 -> "1" [] d = 2 -> "2" [] d = 3 -> "3"
    [] d = 4 -> "4" [] d = 5 -> "5" [] d = 6 -> "6" [] d = 7 -> "7"
    [] d = 8 -> "8" [] d = 9 -> "9"

RECURSIVE NumToStr(_)
NumToStr(n) ==
  IF n < 10 THEN DigitChar(n)
  ELSE NumToStr(n \div 10) \o DigitChar(n % 10)

(* ------------------------------ state ---------------------------------- *)
VARIABLES
  browser,        \* this.browser: 0 is null, otherwise the id of a launched browser
  browsers,       \* the browser processes launched so far: "open" or "closed"
  userSessions,   \* this.userSessions: the Map's entries in insertion order
  call,           \* the locals and the position of every bookTickets call
  cleanupPc,      \* position of the cleanup() call
  cleanupTarget,  \* the browser cleanup() is closing
  tool,           \* the tool-layer call under way: its input, position and outcome
  adapter,        \* the AMCClient call under way: its requests, position and outcome
  server          \* the server process: its API key, its position, whether it listens

vars == <<browser, browsers, userSessions, call, cleanupPc, cleanupTarget, tool, adapter, server>>

NoTool ==
  [pc |-> "idle", method |-> "", input |-> <<>>, adapterCalls |-> 0,
   driverCalls |-> 0, settled |-> <<>>, caught |-> <<>>, outcome |-> "pending",
   result |-> <<>>, response |-> <<>>]

NoServer ==
  [pc |-> "unloaded", apiKey |-> <<>>, isValid |-> <<>>, listening |-> FALSE,
   exitCode |-> <<>>]

NoAdapter ==
  [pc |-> "idle", method |-> "", args |-> <<>>, requests |-> <<>>,
   responses |-> <<>>, outcome |-> "pending", result |-> <<>>]

NoCall ==
  [pc |-> "idle", email |-> 0, seatCount |-> 0, seatPreferences |-> <<>>,
   useAList |-> FALSE, aList |-> <<>>, onBrowser |-> 0,
   context |-> "null", page |-> "null",
   loginSuccess |-> "unset", errorText |-> <<>>,
   seatSelection |-> "unset", availableSeats |-> -1, i |-> 0, selectedCount |-> -1,
   confirmationNumber |-> <<>>, seen |-> <<>>,
   pageLog |-> <<>>, returned |-> <<>>, outcome |-> "pending"]

Init ==
  /\ browser = 0
  /\ browsers = <<>>
  /\ userSessions = <<>>
  /\ call = [c \in Calls |-> NoCall]
  /\ cleanupPc = "idle"
  /\ cleanupTarget = 0
  /\ tool = NoTool
  /\ adapter = NoAdapter
  /\ server = NoServer

(* ------------------------- helpers on one call ------------------------- *)
SetCall(c, r) == call' = [call EXCEPT ![c] = r]

\* the page, the context and the browser they live in are still usable
Alive(r) == r.onBrowser # 0 /\ browsers[r.onBrowser] = "open"

\* a click on a seat or on a checkout control, or the confirmation indicator
\* showing, as the page sees it
Log(r, target, index) ==
  [r EXCEPT !.pageLog = Append(@, [target |-> target, index |-> index])]

\* finally { if (page) await page.close(); if (context) await context.close(); }
FinallyContext(r) ==
  IF r.context # "null" THEN [r EXCEPT !.pc = "closeContext"]
  ELSE [r EXCEPT !.pc = "done", !.outcome = "fulfilled"]

Finally(r) ==
  IF r.page # "null" THEN [r EXCEPT !.pc = "closePage"]
  ELSE FinallyContext(r)

\* a return statement inside the try block
Return(r, res) == Finally([r EXCEPT !.returned = <<res>>])

\* catch (error) { return {success: false, errorMessage: `Booking automation failed: ...`} }
Catch(r, m) ==
  Return(r, [success |-> FALSE,
             errorMessage |-> "Booking automation failed: " \o m])

(* ----------------------------- session map ----------------------------- *)
HasKey(m, k) == \E j \in 1..Len(m) : m[j].key = k

\* a map that adds an entry on every set
MapSetAppend(m, k, v) == Append(m, [key |-> k, value |-> v])

\* Map.prototype.set: replaces the value of an existing key in place,
\* appends a new entry otherwise
MapSet(m, k, v) ==
  IF HasKey(m, k)
  THEN [j \in 1..Len(m) |-> IF m[j].key = k THEN [key |-> k, value |-> v] ELSE m[j]]
  ELSE Append(m, [key |-> k, value |-> v])

storeUserSession(m, email, now) ==
  MapSet(m, email, [userId |-> "user_" \o NumToStr(now), email |-> email,
                    lastLogin |-> now, isActive |-> TRUE])

getActiveSessions(m) == SelectSeq(m, LAMBDA en : en.value.isActive)

(* --------------------------- bookTickets ------------------------------- *)
\* this.browser!.newContext(...) on the handle b the service holds now
CallNewContext(r, b) ==
  IF b = 0
  THEN Catch(r, "Cannot read properties of null (reading 'newContext')")
  ELSE [r EXCEPT !.pc = "newContext", !.onBrowser = b]

\* the inputs a caller may send
BookingInputs == [email : Emails, seatCount : 1..MaxSeatCount, seatPreferences : {<<>>}]
\* the inputs of the callers whose bookings overlap: one seat each
ConcurrentInputs == [email : Emails, seatCount : {1}, seatPreferences : {<<>>}]
\* the inputs of one caller, with and without seat preferences
PreferenceInputs ==
  [email : {1}, seatCount : 1..MaxSeatCount,
   seatPreferences : {<<>>, <<[row |-> "front"]>>, <<[position |-> "aisle"]>>,
                      <<[row |-> "back", position |-> "center"]>>}]

\* entry of bookTickets up to its first await; the frames are
\* interchangeable, and a new call takes the first free one
bookTickets(c, inputs) ==
  /\ call[c].pc = "idle"
  /\ \A d \in Calls : d < c => call[d].pc # "idle"
  /\ \E input \in inputs :
       LET r == [call[c] EXCEPT !.email = input.email, !.seatCount = input.seatCount,
                                !.seatPreferences = input.seatPreferences] IN
       SetCall(c, IF browser = 0 THEN [r EXCEPT !.pc = "launch"]
                  ELSE CallNewContext(r, browser))
  /\ UNCHANGED <<browser, browsers, userSessions, cleanupPc, cleanupTarget, tool, adapter, server>>

\* entry of bookTicketsWithAList: the booking flow with the benefit flag set
bookTicketsWithAList(c, inputs) ==
  /\ call[c].pc = "idle"
  /\ \A d \in Calls : d < c => call[d].pc # "idle"
  /\ \E input \in inputs :
       LET r == [call[c] EXCEPT !.email = input.email, !.seatCount = input.seatCount,
                                !.seatPreferences = input.seatPreferences,
                                !.useAList = TRUE] IN
       SetCall(c, IF browser = 0 THEN [r EXCEPT !.pc = "launch"]
                  ELSE CallNewContext(r, browser))
  /\ UNCHANGED <<browser, browsers, userSessions, cleanupPc, cleanupTarget, tool, adapter, server>>

\* initialize(): chromium.launch resolves with a browser; in headless mode
\* (AMC_TEST_HEADLESS === 'true') initialize returns at once, in visible mode
\* it first waits 5 s
LaunchOk(c) ==
  /\ call[c].pc = "launch"
  /\ browsers' = Append(browsers, "open")
  /\ browser' = Len(browsers) + 1
  /\ \E isHeadless \in BOOLEAN :
       SetCall(c, IF isHeadless THEN CallNewContext(call[c], Len(browsers) + 1)
                  ELSE [call[c] EXCEPT !.pc = "visibleDelay"])
  /\ UNCHANGED <<userSessions, cleanupPc, cleanupTarget, tool, adapter, server>>

\* initialize(): chromium.launch rejects, or resolves with null
LaunchFail(c) ==
  /\ call[c].pc = "launch"
  /\ \E m \in ErrorMessages \cup {"Browser object is null after launch"} :
       SetCall(c, Catch(call[c], "Browser initialization failed: " \o m))
  /\ UNCHANGED <<browser, browsers, userSessions, cleanupPc, cleanupTarget, tool, adapter, server>>

\* initialize(): the 5 s wait of the visible mode is over
VisibleDelayDone(c) ==
  /\ call[c].pc = "visibleDelay"
  /\ SetCall(c, CallNewContext(call[c], browser))
  /\ UNCHANGED <<browser, browsers, userSessions, cleanupPc, cleanupTarget, tool, adapter, server>>

\* browser.newContext resolves or rejects
NewContext(c) ==
  /\ call[c].pc = "newContext"
  /\ \/ /\ Alive(call[c])
        /\ SetCall(c, [call[c] EXCEPT !.context = "open", !.pc = "newPage"])
     \/ \E m \in ErrorMessages : SetCall(c, Catch(call[c], m))
  /\ UNCHANGED <<browser, browsers, userSessions, cleanupPc, cleanupTarget, tool, adapter, server>>

\* context.newPage resolves or rejects
NewPage(c) ==
  /\ call[c].pc = "newPage"
  /\ \/ /\ Alive(call[c])
        /\ SetCall(c, [call[c] EXCEPT !.page = "open", !.pc = "navigate"])
     \/ \E m \in ErrorMessages : SetCall(c, Catch(call[c], m))
  /\ UNCHANGED <<browser, browsers, userSessions, cleanupPc, cleanupTarget, tool, adapter, server>>

\* Step 1: go to the homepage and click the sign-in control that is visible
Navigate(c) ==
  /\ call[c].pc = "navigate"
  /\ \/ /\ Alive(call[c])
        /\ SetCall(c, [call[c] EXCEPT !.pc = "login"])
     \/ \E m \in ErrorMessages : SetCall(c, Catch(call[c], m))
  /\ UNCHANGED <<browser, browsers, userSessions, cleanupPc, cleanupTarget, tool, adapter, server>>

\* a login failure that hands the scraped error text to the caller
LoginFailureWithText(r) ==
  [success |-> FALSE,
   errorMessage |-> IF r.errorText # <<>> THEN r.errorText[1]
                    ELSE "Login failed - please check your credentials"]

\* the result bookTickets returns when handleLogin answered false
LoginFailureResult(r) ==
  [success |-> FALSE, errorMessage |-> "Login failed - please check your credentials"]

\* a flow that goes on to the showtime whatever handleLogin answered
AfterLoginUnchecked(r, loginSuccess) ==
  [r EXCEPT !.loginSuccess = IF loginSuccess THEN "true" ELSE "false",
            !.pc = "gotoShowtime"]

\* if (!loginSuccess) return {...}; otherwise go on to the showtime
AfterLogin(r, loginSuccess) ==
  IF ~loginSuccess
  THEN Return([r EXCEPT !.loginSuccess = "false"], LoginFailureResult(r))
  ELSE [r EXCEPT !.loginSuccess = "true", !.pc = "gotoShowtime"]

\* Step 2: handleLogin fills the form, submits and looks for a signed-in
\* indicator; without one it reads the error element; every exception is
\* caught inside and answered with false
handleLogin(c) ==
  /\ call[c].pc = "login"
  /\ LET r == call[c] IN
     \/ /\ Alive(r)
        /\ SetCall(c, AfterLogin(r, TRUE))
     \/ /\ Alive(r)
        /\ \E t \in ErrorTexts :
             SetCall(c, AfterLogin([r EXCEPT !.errorText = <<t>>], FALSE))
     \/ SetCall(c, AfterLogin(r, FALSE))
  /\ UNCHANGED <<browser, browsers, userSessions, cleanupPc, cleanupTarget, tool, adapter, server>>

\* Step 3: page.goto(showtimeUrl) and waitForLoadState
GotoShowtime(c) ==
  /\ call[c].pc = "gotoShowtime"
  /\ \/ /\ Alive(call[c])
        /\ SetCall(c, [call[c] EXCEPT !.pc = "seatMap"])
     \/ \E m \in ErrorMessages : SetCall(c, Catch(call[c], m))
  /\ UNCHANGED <<browser, browsers, userSessions, cleanupPc, cleanupTarget, tool, adapter, server>>

\* the JavaScript expression  msg || fallback  on strings
OrElse(msg, fallback) == IF msg # "" THEN msg ELSE fallback

\* selectSeats answered {success: false, errorMessage} and bookTickets returns it
SeatFailure(r, msg) ==
  Return([r EXCEPT !.seatSelection = "failure"],
         [success |-> FALSE, errorMessage |-> OrElse(msg, "Failed to select seats")])

\* what selectSeats does with the enumerated list of a available seats
AfterEnumerate(r, a) ==
  IF a < r.seatCount
  THEN SeatFailure([r EXCEPT !.availableSeats = a],
                   "Only " \o NumToStr(a) \o " seats available, requested "
                     \o NumToStr(r.seatCount))
  ELSE [r EXCEPT !.availableSeats = a, !.i = 0, !.pc = "clickSeat"]

\* Step 4, selectSeats: wait for the seat map and enumerate the available seats
EnumerateSeats(c) ==
  /\ call[c].pc = "seatMap"
  /\ \/ /\ Alive(call[c])
        /\ \E a \in 0..MaxAvailable : SetCall(c, AfterEnumerate(call[c], a))
     \/ \E m \in ErrorMessages :
          SetCall(c, SeatFailure(call[c], "Seat selection failed: " \o m))
  /\ UNCHANGED <<browser, browsers, userSessions, cleanupPc, cleanupTarget, tool, adapter, server>>

\* a choice that counts from the end of the list for a preference of the
\* back rows
SeatByPreference(r) ==
  IF r.seatPreferences # <<>> /\ "row" \in DOMAIN r.seatPreferences[1]
       /\ r.seatPreferences[1].row = "back"
  THEN r.availableSeats - 1 - r.i
  ELSE r.i

\* const seat = availableSeats[i]: the index of the seat the loop clicks
SeatToClick(r) == r.i

\* selectSeats: one turn of the loop, a click on availableSeats[i]
ClickSeat(c) ==
  /\ call[c].pc = "clickSeat"
  /\ LET r == call[c]
         clicked == Log(r, "seat", SeatToClick(r)) IN
     \/ /\ Alive(r)
        /\ SetCall(c, [clicked EXCEPT !.i = r.i + 1,
                         !.pc = IF r.i + 1 < r.seatCount THEN "clickSeat" ELSE "verifySeats"])
     \/ \E m \in ErrorMessages, q \in {r, clicked} :
          SetCall(c, SeatFailure(q, "Seat selection failed: " \o m))
  /\ UNCHANGED <<browser, browsers, userSessions, cleanupPc, cleanupTarget, tool, adapter, server>>

\* what selectSeats answers once it has counted the selected seats
AfterVerify(r, selectedCount) ==
  IF selectedCount = r.seatCount
  THEN [r EXCEPT !.seatSelection = "success", !.selectedCount = selectedCount,
                 !.pc = IF r.useAList THEN "enableAList" ELSE "continue"]
  ELSE SeatFailure([r EXCEPT !.selectedCount = selectedCount], "Failed to select all requested seats. Selected: "
                        \o NumToStr(selectedCount) \o ", Requested: "
                        \o NumToStr(r.seatCount))

\* selectSeats: count the elements in the selected state
VerifySeats(c) ==
  /\ call[c].pc = "verifySeats"
  /\ \/ /\ Alive(call[c])
        /\ \E k \in 0..MaxAvailable : SetCall(c, AfterVerify(call[c], k))
     \/ \E m \in ErrorMessages :
          SetCall(c, SeatFailure(call[c], "Seat selection failed: " \o m))
  /\ UNCHANGED <<browser, browsers, userSessions, cleanupPc, cleanupTarget, tool, adapter, server>>

\* a step that answers true whatever is on the page
AListSkipped(checkboxVisible, alternativeElements, buttonVisible) == TRUE

\* enableAListReservation answers true when it found the checkbox, or found
\* related text and the fallback button; false otherwise
AListFound(checkboxVisible, alternativeElements, buttonVisible) ==
  checkboxVisible \/ (alternativeElements > 0 /\ buttonVisible)

\* what the flow does with the answer of enableAListReservation: without
\* the benefit control the booking fails
AfterEnableAList(r, seen, enabled) ==
  LET q == [r EXCEPT !.aList = <<[seen |-> seen, enabled |-> enabled]>>] IN
  IF enabled THEN [q EXCEPT !.pc = "continue"]
  ELSE Return(q, [success |-> FALSE,
                  errorMessage |-> "Failed to enable A-List reservation"])

\* enableAListReservation: the checkbox, checked if it is not; otherwise,
\* with related text on the page, the fallback button; every exception is
\* caught inside and answered with false
enableAListReservation(c) ==
  /\ call[c].pc = "enableAList"
  /\ LET r == call[c]
         checked == Log(r, "aListCheckbox", 0)
         pressed == Log(r, "aListButton", 0) IN
     \/ /\ Alive(r)
        /\ \E checkboxVisible \in BOOLEAN, isChecked \in BOOLEAN,
              alternativeElements \in 0..1, buttonVisible \in BOOLEAN :
             LET enabled == AListFound(checkboxVisible, alternativeElements, buttonVisible)
                 seen == IF checkboxVisible
                         THEN (IF isChecked THEN "checked" ELSE "unchecked")
                         ELSE IF alternativeElements > 0 /\ buttonVisible
                         THEN "button" ELSE "none"
                 q == IF seen = "unchecked" THEN checked
                      ELSE IF seen = "button" THEN pressed ELSE r IN
             SetCall(c, AfterEnableAList(q, seen, enabled))
     \/ \E q \in {r, checked, pressed} :
          SetCall(c, AfterEnableAList(q, "error", FALSE))
  /\ UNCHANGED <<browser, browsers, userSessions, cleanupPc, cleanupTarget, tool, adapter, server>>

\* the name completeBooking and completeAListReservation give the flow in
\* their error messages
FlowName(r) == IF r.useAList THEN "A-List reservation" ELSE "Booking"

\* completeBooking answered {success: false, errorMessage} and bookTickets returns it
BookingFailure(r, msg) ==
  Return(r, [success |-> FALSE, errorMessage |-> OrElse(msg, "Booking completion failed")])

\* a step that clicks the control whether it is visible or not
ClickAlways(r, target, visible) ==
  Log([r EXCEPT !.seen = Append(@, [target |-> target, visible |-> visible])],
      target, 0)

\* if (await button.isVisible()) { await button.click(); ... }
ClickIfVisible(r, target, visible) ==
  LET q == [r EXCEPT !.seen = Append(@, [target |-> target, visible |-> visible])] IN
  IF visible THEN Log(q, target, 0) ELSE q

\* one optional control of completeBooking: clicked only if it is visible
OptionalClick(c, target, next) ==
  LET r == call[c]
      clicked == ClickIfVisible(r, target, TRUE) IN
  \/ /\ Alive(r)
     /\ \E visible \in BOOLEAN :
          SetCall(c, [ClickIfVisible(r, target, visible) EXCEPT !.pc = next])
  \/ \E m \in ErrorMessages, q \in {r, clicked} :
       SetCall(c, BookingFailure(q, FlowName(q) \o " completion failed: " \o m))

\* Step 5, completeBooking: the continue/checkout button
ContinueStep(c) ==
  /\ call[c].pc = "continue"
  /\ OptionalClick(c, "continue", "confirm")
  /\ UNCHANGED <<browser, browsers, userSessions, cleanupPc, cleanupTarget, tool, adapter, server>>

\* completeBooking: the confirm/book button
ConfirmStep(c) ==
  /\ call[c].pc = "confirm"
  /\ OptionalClick(c, "confirm", "waitConfirmation")
  /\ UNCHANGED <<browser, browsers, userSessions, cleanupPc, cleanupTarget, tool, adapter, server>>

\* completeBooking: waitForSelector on the confirmation indicator (20 s timeout)
WaitConfirmation(c) ==
  /\ call[c].pc = "waitConfirmation"
  /\ \/ /\ Alive(call[c])
        /\ SetCall(c, [Log(call[c], "confirmationShown", 0) EXCEPT !.pc = "extract"])
     \/ \E m \in ErrorMessages :
          SetCall(c, BookingFailure(call[c], FlowName(call[c]) \o " completion failed: " \o m))
  /\ UNCHANGED <<browser, browsers, userSessions, cleanupPc, cleanupTarget, tool, adapter, server>>

\* what extractBookingDetails scrapes, and its fallback
DefaultDetails ==
  [movieTitle |-> "Unknown", theaterName |-> "Unknown", showtime |-> "Unknown",
   totalPrice |-> 0]
BookingDetails ==
  {DefaultDetails,
   [movieTitle |-> "Dune", theaterName |-> "AMC Century City 15",
    showtime |-> "7:00 PM", totalPrice |-> 15]}

\* a flow that stores the session whatever completeBooking answered
SessionsAfterAny(m, email, success, now) == storeUserSession(m, email, now)

\* if (bookingResult.success) { this.storeUserSession(input.email); ... }
SessionsAfter(m, email, success, now) ==
  IF success THEN storeUserSession(m, email, now) ELSE m

\* completeBooking: extract the confirmation number and the details; with a
\* confirmation number bookTickets stores the session and returns the success
ExtractConfirmation(c) ==
  /\ call[c].pc = "extract"
  /\ LET r == call[c] IN
     \E v \in (IF Alive(r) THEN ConfirmationTexts ELSE {JsNull}),
        d \in (IF Alive(r) THEN BookingDetails ELSE {DefaultDetails}),
        now \in 1..MaxTime :
       LET q == [r EXCEPT !.confirmationNumber = <<v>>] IN
       IF Truthy(v)
       THEN /\ userSessions' = SessionsAfter(userSessions, r.email, TRUE, now)
            /\ SetCall(c, Return(q, [success |-> TRUE,
                                     confirmationNumber |-> v.value,
                                     bookingDetails |-> d]))
       ELSE /\ userSessions' = SessionsAfter(userSessions, r.email, FALSE, now)
            /\ SetCall(c, BookingFailure(q,
                            FlowName(q) \o " completed but no confirmation number found"))
  /\ UNCHANGED <<browser, browsers, cleanupPc, cleanupTarget, tool, adapter, server>>

\* finally: page.close() resolves, or rejects and the call rejects with it
ClosePage(c) ==
  /\ call[c].pc = "closePage"
  /\ \/ SetCall(c, FinallyContext([call[c] EXCEPT !.page = "closed"]))
     \/ SetCall(c, [call[c] EXCEPT !.pc = "done", !.outcome = "rejected"])
  /\ UNCHANGED <<browser, browsers, userSessions, cleanupPc, cleanupTarget, tool, adapter, server>>

\* finally: context.close() resolves, or rejects and the call rejects with it
CloseContext(c) ==
  /\ call[c].pc = "closeContext"
  /\ \/ SetCall(c, [call[c] EXCEPT !.context = "closed", !.pc = "done",
                                   !.outcome = "fulfilled"])
     \/ SetCall(c, [call[c] EXCEPT !.pc = "done", !.outcome = "rejected"])
  /\ UNCHANGED <<browser, browsers, userSessions, cleanupPc, cleanupTarget, tool, adapter, server>>

(* ------------------------------ cleanup -------------------------------- *)
\* cleanup() up to its first await: with a browser it starts closing it,
\* without one it clears the sessions at once.  A behaviour has one
\* cleanup() call, at any moment of it.
cleanup ==
  /\ cleanupPc = "idle"
  /\ IF browser # 0
     THEN /\ cleanupPc' = "closing"
          /\ cleanupTarget' = browser
          /\ UNCHANGED userSessions
     ELSE /\ cleanupPc' = "done"
          /\ userSessions' = <<>>
          /\ UNCHANGED cleanupTarget
  /\ UNCHANGED <<browser, browsers, call, tool, adapter, server>>

\* browser.close() resolves: the handle is dropped and the sessions cleared
CleanupClosed ==
  /\ cleanupPc = "closing"
  /\ browsers' = [browsers EXCEPT ![cleanupTarget] = "closed"]
  /\ browser' = 0
  /\ userSessions' = <<>>
  /\ cleanupPc' = "done"
  /\ UNCHANGED <<call, cleanupTarget, tool, adapter, server>>

\* browser.close() rejects, and cleanup() rejects with it
CleanupFailed ==
  /\ cleanupPc = "closing"
  /\ cleanupPc' = "rejected"
  /\ UNCHANGED <<browser, browsers, userSessions, call, cleanupTarget, tool, adapter, server>>

\* the promise of the call has settled and its frame is gone
Settle(c) ==
  /\ call[c].pc = "done"
  /\ SetCall(c, NoCall)
  /\ UNCHANGED <<browser, browsers, userSessions, cleanupPc, cleanupTarget, tool, adapter, server>>

(* --------------------------- vendor API adapter ------------------------ *)
\* An optional field or a nullable value is a sequence of length 0 or 1:
\* <<>> is undefined or null, <<v>> is the value v.
Absent == <<>>
Present(v) == <<v>>

\* movie lists the vendor may send
MovieLists == UNION {[1..k -> {"m1", "m2"}] : k \in 0..MaxMovies}

\* bodies of a movie-list answer: an object whose _embedded (with or without
\* movies), movies and data members are each there or not
MovieBodies ==
  [embedded : {Absent, Present([movies |-> Absent])}
                \cup {Present([movies |-> Present(l)]) : l \in MovieLists},
   movies : {Absent} \cup {Present(l) : l \in MovieLists},
   data : {Absent} \cup {Present(l) : l \in MovieLists}]

\* what the vendor says in the body of an error answer
ErrorBodies ==
  {Absent, Present([message |-> Absent]), Present([message |-> Present("")]),
   Present([message |-> Present("Unauthorized")])}

\* the ways one HTTP request ends: a 2xx answer with a body (null when the
\* body is the JSON null), a non-2xx answer, or no answer at all
OkResponse(body) == [kind |-> "ok", data |-> body]
HttpErrors ==
  [kind : {"http"}, status : {401, 500}, data : ErrorBodies]
NetworkErrors == [kind : {"network"}, message : {"Network Error"}]
Failures == HttpErrors \cup NetworkErrors

\* an instance of Error (TypeError, AxiosError without response, ...)
JsError(m) == [instanceOfError |-> TRUE, message |-> m]

\* a string || fallback
StringOr(opt, fallback) ==
  IF opt # Absent /\ opt[1] # "" THEN opt[1] ELSE fallback

\* an interceptor that drops the vendor's message
InterceptorDefaultOnly(resp) ==
  IF resp.kind = "ok" THEN [outcome |-> "fulfilled", value |-> resp.data]
  ELSE IF resp.kind = "http"
  THEN [outcome |-> "rejected",
        value |-> [instanceOfError |-> FALSE,
                   code |-> NumToStr(resp.status),
                   message |-> "AMC API request failed",
                   details |-> resp.data]]
  ELSE [outcome |-> "rejected", value |-> JsError(resp.message)]

\* the response interceptor: a 2xx answer passes, an error with a response is
\* thrown as a plain AMCError object, any other error is thrown as it is
Interceptor(resp) ==
  IF resp.kind = "ok" THEN [outcome |-> "fulfilled", value |-> resp.data]
  ELSE IF resp.kind = "http"
  THEN [outcome |-> "rejected",
        value |-> [instanceOfError |-> FALSE,
                   code |-> NumToStr(resp.status),
                   message |-> StringOr(IF resp.data = Absent THEN Absent
                                        ELSE resp.data[1].message,
                                        "AMC API request failed"),
                   details |-> resp.data]]
  ELSE [outcome |-> "rejected", value |-> JsError(resp.message)]

\* this.client.get(url, {params}) as the adapter's log of requests sees it
Issue(a, pc, url, params) ==
  [a EXCEPT !.pc = pc,
     !.requests = Append(@, [url |-> url, params |-> params])]

\* the request under way has ended with resp
Receive(a, resp) == [a EXCEPT !.responses = Append(@, resp)]

\* return value / throw error of an adapter method
AdapterReturn(a, value) ==
  [a EXCEPT !.pc = "done", !.outcome = "fulfilled", !.result = <<value>>]
AdapterThrow(a, error) ==
  [a EXCEPT !.pc = "done", !.outcome = "rejected", !.result = <<error>>]

\* a method is entered: only one adapter call is followed at a time
Enter(method, args) ==
  [NoAdapter EXCEPT !.method = method, !.args = args]

\* reading a property of null
NullDeref(name) ==
  JsError("Cannot read properties of null (reading '" \o name \o "')")

\* a lookup that never looks under data
NowPlayingMoviesNoData(body) ==
  IF body.embedded # Absent /\ body.embedded[1].movies # Absent
  THEN body.embedded[1].movies[1]
  ELSE IF body.movies # Absent THEN body.movies[1]
  ELSE <<>>

\* the list getNowPlayingMovies returns for a body: an array, empty or not,
\* is truthy
NowPlayingMovies(body) ==
  IF body.embedded # Absent /\ body.embedded[1].movies # Absent
  THEN body.embedded[1].movies[1]
  ELSE IF body.movies # Absent THEN body.movies[1]
  ELSE IF body.data # Absent THEN body.data[1]
  ELSE <<>>

\* getNowPlayingMovies up to its await
getNowPlayingMovies ==
  /\ adapter.pc = "idle"
  /\ adapter' = Issue(Enter("getNowPlayingMovies", <<>>), "nowPlaying",
                      "/movies/views/now-playing", <<>>)
  /\ UNCHANGED <<browser, browsers, userSessions, call, cleanupPc, cleanupTarget, tool, server>>

\* the state of the call once the request has ended with resp
AfterNowPlaying(a, resp) ==
  LET r == Interceptor(resp) IN
  IF r.outcome = "rejected" THEN AdapterThrow(a, r.value)
  ELSE IF r.value = Absent THEN AdapterThrow(a, NullDeref("_embedded"))
  ELSE AdapterReturn(a, NowPlayingMovies(r.value[1]))

\* the now-playing request ends
NowPlayingResponds ==
  /\ adapter.pc = "nowPlaying"
  /\ \E resp \in {OkResponse(Absent)} \cup {OkResponse(Present(b)) : b \in MovieBodies}
                   \cup Failures :
       adapter' = AfterNowPlaying(Receive(adapter, resp), resp)
  /\ UNCHANGED <<browser, browsers, userSessions, call, cleanupPc, cleanupTarget, tool, server>>

\* the ZIP codes and radii getTheatersByZip is called with: the radius is
\* given or left out
ZipArgs == {<<"90210">>, <<"90210", 10>>}

\* rad: number = 25
DefaultRadius == 25
RadiusOf(args) == IF Len(args) >= 2 THEN args[2] ELSE DefaultRadius

\* the href of a suggestion's locations link: a string new URL() accepts or
\* not, with or without the latitude and longitude query parameters
Hrefs ==
  [valid : {TRUE},
   latitude : {Absent, Present("34.05")},
   longitude : {Absent, Present("-118.24")}]
    \cup {[valid |-> FALSE, latitude |-> Absent, longitude |-> Absent]}

\* parseFloat on the coordinate strings, in hundredths
ParseFloat(x) ==
  CASE x = "34.05" -> 3405
    [] x = "-118.24" -> -11824

\* one suggestion: _links is there or not, it holds the locations relation or
\* not, the link holds an href or not
Suggestions ==
  {[links |-> Absent], [links |-> Present([locations |-> Absent])],
   [links |-> Present([locations |-> Present([href |-> Absent])])]}
    \cup {[links |-> Present([locations |-> Present([href |-> Present(h)])])] :
            h \in Hrefs}
SuggestionLists == UNION {[1..k -> Suggestions] : k \in 0..MaxSuggestions}

\* bodies of the location-suggestions answer
SuggestionBodies ==
  {Absent, Present([embedded |-> Absent]),
   Present([embedded |-> Present([suggestions |-> Absent])])}
    \cup {Present([embedded |-> Present([suggestions |-> Present(l)])]) :
            l \in SuggestionLists}

\* theatre lists the vendor may send, and the locations wrapping them
TheatreIds == {"610", "2325"}
TheatreLists == UNION {[1..k -> TheatreIds] : k \in 0..MaxTheaters}
LocationBodies ==
  {Absent, Present([embedded |-> Absent]),
   Present([embedded |-> Present([locations |-> Absent])])}
    \cup {Present([embedded |-> Present([locations |-> Present(l)])]) :
            l \in TheatreLists}
TheatreBodies ==
  {Absent} \cup
  {Present(b) : b \in [theatres : {Absent} \cup {Present(l) : l \in TheatreLists},
                       data : {Absent} \cup {Present(l) : l \in TheatreLists}]}

\* the coordinates getTheatersByZip takes out of the suggestions answer, the
\* decision to fall back, or the TypeError an access throws
Coordinates(data) ==
  LET NoCoordinates == [kind |-> "fallback"] IN
  IF \/ data = Absent
     \/ data[1].embedded = Absent
     \/ data[1].embedded[1].suggestions = Absent
     \/ Len(data[1].embedded[1].suggestions[1]) = 0
  THEN NoCoordinates
  ELSE
    LET suggestion == data[1].embedded[1].suggestions[1][1] IN
    IF suggestion.links = Absent
    THEN [kind |-> "throw",
          error |-> JsError("Cannot read properties of undefined (reading 'https://api.amctheatres.com/rels/v2/locations')")]
    ELSE IF suggestion.links[1].locations = Absent THEN NoCoordinates
    ELSE IF suggestion.links[1].locations[1].href = Absent THEN NoCoordinates
    ELSE
      LET url == suggestion.links[1].locations[1].href[1] IN
      IF ~url.valid THEN [kind |-> "throw", error |-> JsError("Invalid URL")]
      ELSE IF /\ url.latitude # Absent /\ url.latitude[1] # ""
              /\ url.longitude # Absent /\ url.longitude[1] # ""
      THEN [kind |-> "coords", latitude |-> url.latitude[1],
            longitude |-> url.longitude[1]]
      ELSE NoCoordinates

\* the fallback request to the general theatres endpoint
Fallback(a) ==
  Issue(a, "theatres", "/theatres",
        [zipCode |-> a.args[1], radius |-> RadiusOf(a.args)])

\* getTheatersByZip up to its first await
getTheatersByZip ==
  /\ adapter.pc = "idle"
  /\ \E args \in ZipArgs :
       adapter' = Issue(Enter("getTheatersByZip", args), "suggestions",
                        "/location-suggestions",
                        [query |-> args[1], pageSize |-> 10, pageNumber |-> 1])
  /\ UNCHANGED <<browser, browsers, userSessions, call, cleanupPc, cleanupTarget, tool, server>>

\* the state of the call once the suggestions request has ended with resp
AfterSuggestions(a, resp) ==
  LET r == Interceptor(resp) IN
  IF r.outcome = "rejected" THEN AdapterThrow(a, r.value)
  ELSE
    LET c == Coordinates(r.value) IN
    IF c.kind = "throw" THEN AdapterThrow(a, c.error)
    ELSE IF c.kind = "coords"
    THEN Issue(a, "locations", "/locations",
               [latitude |-> ParseFloat(c.latitude),
                longitude |-> ParseFloat(c.longitude),
                pageSize |-> 50, pageNumber |-> 1])
    ELSE Fallback(a)

SuggestionsRespond ==
  /\ adapter.pc = "suggestions"
  /\ \E resp \in {OkResponse(b) : b \in SuggestionBodies} \cup Failures :
       adapter' = AfterSuggestions(Receive(adapter, resp), resp)
  /\ UNCHANGED <<browser, browsers, userSessions, call, cleanupPc, cleanupTarget, tool, server>>

\* a coordinate search that is tried once more when it has failed
AfterLocationsRetry(a, resp) ==
  IF Interceptor(resp).outcome = "rejected" /\ Len(a.requests) < 3
  THEN Issue(a, "locations", a.requests[2].url, a.requests[2].params)
  ELSE IF Interceptor(resp).outcome = "rejected"
  THEN AdapterThrow(a, Interceptor(resp).value)
  ELSE AdapterReturn(a, <<>>)

\* the state of the call once the coordinate search has ended with resp
AfterLocations(a, resp) ==
  LET r == Interceptor(resp) IN
  IF r.outcome = "rejected" THEN AdapterThrow(a, r.value)
  ELSE IF /\ r.value # Absent
          /\ r.value[1].embedded # Absent
          /\ r.value[1].embedded[1].locations # Absent
  THEN LET locations == r.value[1].embedded[1].locations[1] IN
       AdapterReturn(a, [j \in 1..Len(locations) |-> [id |-> locations[j]]])
  ELSE Fallback(a)

LocationsRespond ==
  /\ adapter.pc = "locations"
  /\ \E resp \in {OkResponse(b) : b \in LocationBodies} \cup Failures :
       adapter' = AfterLocations(Receive(adapter, resp), resp)
  /\ UNCHANGED <<browser, browsers, userSessions, call, cleanupPc, cleanupTarget, tool, server>>

\* response.data.theatres || response.data.data || []
TheatresOf(body) ==
  IF body.theatres # Absent THEN body.theatres[1]
  ELSE IF body.data # Absent THEN body.data[1]
  ELSE <<>>

\* the state of the call once the fallback request has ended with resp
AfterTheatres(a, resp) ==
  LET r == Interceptor(resp) IN
  IF r.outcome = "rejected" THEN AdapterThrow(a, r.value)
  ELSE IF r.value = Absent THEN AdapterThrow(a, NullDeref("theatres"))
  ELSE AdapterReturn(a, [j \in 1..Len(TheatresOf(r.value[1])) |->
                           [id |-> TheatresOf(r.value[1])[j]]])

TheatresRespond ==
  /\ adapter.pc = "theatres"
  /\ \E resp \in {OkResponse(b) : b \in TheatreBodies} \cup Failures :
       adapter' = AfterTheatres(Receive(adapter, resp), resp)
  /\ UNCHANGED <<browser, browsers, userSessions, call, cleanupPc, cleanupTarget, tool, server>>

\* the theatre ids and slugs the adapter is asked about, and the dates
TheaterIdArgs == {"610", "amc-empire-25"}

\* bodies of the theatre answer: the raw theatre with its id, with or without
\* its location member
RawTheaters ==
  {Absent} \cup
  {Present(t) : t \in [id : TheatreIds, location : {Absent, Present("location")}]}

\* getTheaterById up to its await
getTheaterById ==
  /\ adapter.pc = "idle"
  /\ \E theaterId \in TheaterIdArgs :
       adapter' = Issue(Enter("getTheaterById", <<theaterId>>), "theatre",
                        "/theatres/" \o theaterId, <<>>)
  /\ UNCHANGED <<browser, browsers, userSessions, call, cleanupPc, cleanupTarget, tool, server>>

\* the state of the call once the theatre request has ended with resp: the
\* id of the result is the id of the answer
AfterTheatre(a, resp) ==
  LET r == Interceptor(resp) IN
  IF r.outcome = "rejected" THEN AdapterThrow(a, r.value)
  ELSE IF r.value = Absent THEN AdapterThrow(a, NullDeref("id"))
  ELSE IF r.value[1].location = Absent
  THEN AdapterThrow(a, JsError("Cannot read properties of undefined (reading 'addressLine1')"))
  ELSE AdapterReturn(a, [id |-> r.value[1].id])

TheatreResponds ==
  /\ adapter.pc = "theatre"
  /\ \E resp \in {OkResponse(b) : b \in RawTheaters} \cup Failures :
       adapter' = AfterTheatre(Receive(adapter, resp), resp)
  /\ UNCHANGED <<browser, browsers, userSessions, call, cleanupPc, cleanupTarget, tool, server>>

\* showtime lists and the bodies of the showtimes answer
ShowtimeLists == {<<>>, <<"showtime_001">>}
ShowtimeBodies ==
  {Absent, Present([embedded |-> Absent]),
   Present([embedded |-> Present([showtimes |-> Absent])])}
    \cup {Present([embedded |-> Present([showtimes |-> Present(l)])]) :
            l \in ShowtimeLists}

\* getShowtimes up to its await
getShowtimes ==
  /\ adapter.pc = "idle"
  /\ \E theaterId \in TheaterIdArgs, date \in {"2024-01-15"} :
       adapter' = Issue(Enter("getShowtimes", <<theaterId, date>>), "showtimes",
                        "/theatres/" \o theaterId \o "/showtimes/" \o date, <<>>)
  /\ UNCHANGED <<browser, browsers, userSessions, call, cleanupPc, cleanupTarget, tool, server>>

\* the state of the call once the showtimes request has ended with resp
AfterShowtimes(a, resp) ==
  LET r == Interceptor(resp) IN
  IF r.outcome = "rejected" THEN AdapterThrow(a, r.value)
  ELSE IF /\ r.value # Absent
          /\ r.value[1].embedded # Absent
          /\ r.value[1].embedded[1].showtimes # Absent
  THEN AdapterReturn(a, r.value[1].embedded[1].showtimes[1])
  ELSE AdapterReturn(a, <<>>)

ShowtimesRespond ==
  /\ adapter.pc = "showtimes"
  /\ \E resp \in {OkResponse(b) : b \in ShowtimeBodies} \cup Failures :
       adapter' = AfterShowtimes(Receive(adapter, resp), resp)
  /\ UNCHANGED <<browser, browsers, userSessions, call, cleanupPc, cleanupTarget, tool, server>>

\* validateApiKey up to its await
validateApiKey ==
  /\ adapter.pc = "idle"
  /\ adapter' = Issue(Enter("validateApiKey", <<>>), "validate",
                      "/movies/views/now-playing", [limit |-> 1])
  /\ UNCHANGED <<browser, browsers, userSessions, call, cleanupPc, cleanupTarget, tool, server>>

\* a validateApiKey that lets the error through
ValidateRethrows(a, resp) ==
  LET r == Interceptor(resp) IN
  IF r.outcome = "rejected" THEN AdapterThrow(a, r.value)
  ELSE AdapterReturn(a, TRUE)

\* try { await get; return true } catch { return false }
AfterValidate(a, resp) ==
  LET r == Interceptor(resp) IN
  IF r.outcome = "rejected" THEN AdapterReturn(a, FALSE)
  ELSE AdapterReturn(a, TRUE)

ValidateResponds ==
  /\ adapter.pc = "validate"
  /\ \E resp \in {OkResponse(Absent)} \cup {OkResponse(Present(b)) : b \in MovieBodies}
                   \cup Failures :
       adapter' = AfterValidate(Receive(adapter, resp), resp)
  /\ UNCHANGED <<browser, browsers, userSessions, call, cleanupPc, cleanupTarget, tool, server>>

\* the promise of the adapter call has settled
AdapterSettle ==
  /\ adapter.pc = "done"
  /\ adapter' = NoAdapter
  /\ UNCHANGED <<browser, browsers, userSessions, call, cleanupPc, cleanupTarget, tool, server>>

(* ----------------------------- tool layer ------------------------------ *)
\* the characters the ZIP strings of the model are made of
ZipAlphabet == {"9", "-", "x"}
ZipStrings == UNION {[1..k -> ZipAlphabet] : k \in 0..MaxZipLen}

\* the inputs a caller may send to list_theaters: zip a string, missing, or
\* of another type
ListTheatersInputs ==
  {[zip |-> [type |-> "undefined"]], [zip |-> [type |-> "number"]]}
    \cup {[zip |-> [type |-> "string", chars |-> s]] : s \in ZipStrings}

\* \d of a JavaScript regular expression
IsDigit(ch) == ch \in {"0", "1", "2", "3", "4", "5", "6", "7", "8", "9"}

\* \d{n} matches s from position from
Digits(s, from, n) ==
  /\ from + n - 1 <= Len(s)
  /\ \A j \in from..(from + n - 1) : IsDigit(s[j])

\* a pattern without the closing anchor
ZipRegexUnanchored(s) == Digits(s, 1, 5)

\* /^\d{5}(-\d{4})?$/.test(s): the positions the match can have reached after
\* each part of the pattern
ZipRegexTest(s) ==
  LET afterFive == IF Digits(s, 1, 5) THEN {6} ELSE {}
      afterGroup ==
        afterFive \cup
          {q + 5 : q \in {r \in afterFive : /\ r <= Len(s)
                                            /\ s[r] = "-"
                                            /\ Digits(s, r + 1, 4)}}
  IN (Len(s) + 1) \in afterGroup

\* ListTheatersSchema.parse: the issues zod raises, none for a valid input
ListTheatersSchema(input) ==
  IF input.zip.type = "undefined" THEN <<"Required">>
  ELSE IF input.zip.type # "string" THEN <<"Expected string, received number">>
  ELSE IF ~ZipRegexTest(input.zip.chars) THEN <<"Invalid ZIP code format">>
  ELSE <<>>

\* createMCPError(error, message, details)
createMCPError(error, message, details) ==
  [error |-> error, message |-> message, code |-> details]

\* the messages of the errors the adapter throws
AdapterErrorMessages == {"Network Error"}

\* what an adapter method rejects with: an Error, or the AMCError object the
\* response interceptor makes of a non-2xx answer
AdapterErrors ==
  {JsError(m) : m \in AdapterErrorMessages}
    \cup {Interceptor(f).value : f \in HttpErrors}

\* error instanceof Error ? error.message : 'Unknown error'
ErrorDetail(e) == IF e.instanceOfError THEN e.message ELSE "Unknown error"

\* catch (error) of a tool method whose input was valid
Rethrow(t, kind, message, e) ==
  [t EXCEPT !.pc = "done", !.outcome = "rejected", !.caught = <<e>>,
     !.result = <<createMCPError(kind, message, ErrorDetail(e))>>]

\* catch (error) of a tool method for the ZodError of its schema
Invalid(t, issues) ==
  [t EXCEPT !.pc = "done", !.outcome = "rejected",
     !.result = <<createMCPError("VALIDATION_ERROR",
                    "Invalid input parameters", issues[1])>>]

\* listTheaters up to its first await: validate, then call the adapter
listTheaters ==
  /\ tool.pc = "idle"
  /\ \E input \in ListTheatersInputs :
       LET issues == ListTheatersSchema(input) IN
       tool' = IF issues # <<>>
               THEN [tool EXCEPT !.pc = "done", !.method = "listTheaters",
                       !.input = <<input>>,
                       !.outcome = "rejected",
                       !.result = <<createMCPError("VALIDATION_ERROR",
                                      "Invalid input parameters", issues[1])>>]
               ELSE [tool EXCEPT !.pc = "getTheatersByZip",
                       !.method = "listTheaters", !.input = <<input>>,
                       !.adapterCalls = @ + 1]
  /\ UNCHANGED <<browser, browsers, userSessions, call, cleanupPc, cleanupTarget, adapter, server>>

\* an output whose count is not taken from the list
ListTheatersReturnsFixedCount ==
  /\ tool.pc = "getTheatersByZip"
  /\ \E k \in 0..MaxTheaters :
       tool' = [tool EXCEPT !.pc = "done", !.outcome = "fulfilled",
                  !.result = <<[theaters |-> [j \in 1..k |-> [id |-> NumToStr(j)]],
                                totalCount |-> MaxTheaters]>>]
  /\ UNCHANGED <<browser, browsers, userSessions, call, cleanupPc, cleanupTarget, adapter, server>>

\* getTheatersByZip resolves with a list and listTheaters shapes its output
ListTheatersReturns ==
  /\ tool.pc = "getTheatersByZip"
  /\ \E k \in 0..MaxTheaters :
       tool' = [tool EXCEPT !.pc = "done", !.outcome = "fulfilled",
                  !.result = <<[theaters |-> [j \in 1..k |-> [id |-> NumToStr(j)]],
                                totalCount |-> k]>>]
  /\ UNCHANGED <<browser, browsers, userSessions, call, cleanupPc, cleanupTarget, adapter, server>>

\* getTheatersByZip rejects and listTheaters rethrows as AMC_API_ERROR
ListTheatersThrows ==
  /\ tool.pc = "getTheatersByZip"
  /\ \E e \in AdapterErrors :
       tool' = Rethrow(tool, "AMC_API_ERROR", "Failed to fetch theaters", e)
  /\ UNCHANGED <<browser, browsers, userSessions, call, cleanupPc, cleanupTarget, adapter, server>>

\* a string argument of a tool: missing, or a string
JsUndefined == [type |-> "undefined", value |-> ""]

\* the inputs a caller may send to list_showtimes, the date character by
\* character
ListShowtimesInputs ==
  [theaterId : {JsUndefined, JsString("")} \cup {JsString(t) : t \in TheaterIdArgs},
   date : {[type |-> "undefined"]}
            \cup {[type |-> "string", chars |-> d] :
                    d \in {<<"2", "0", "2", "4", "-", "0", "1", "-", "1", "5">>,
                           <<"2", "0", "2", "4", "-", "1", "-", "5">>,
                           <<"t", "o", "d", "a", "y">>}}]

\* /^\d{4}-\d{2}-\d{2}$/.test(s)
DateRegexTest(s) ==
  /\ Len(s) = 10
  /\ Digits(s, 1, 4) /\ s[5] = "-"
  /\ Digits(s, 6, 2) /\ s[8] = "-"
  /\ Digits(s, 9, 2)

\* z.string().min(1, message): the issues for one string member
RequiredString(v, message) ==
  IF v.type = "undefined" THEN <<"Required">>
  ELSE IF v.value = "" THEN <<message>>
  ELSE <<>>

\* ListShowtimesSchema.parse: the issues zod raises, none for a valid input
ListShowtimesSchema(input) ==
  RequiredString(input.theaterId, "Theater ID is required")
    \o (IF input.date.type = "undefined" THEN <<"Required">>
        ELSE IF ~DateRegexTest(input.date.chars)
        THEN <<"Date must be in YYYY-MM-DD format">>
        ELSE <<>>)

\* listShowtimes up to its await: validate, then start both adapter calls
listShowtimes ==
  /\ tool.pc = "idle"
  /\ \E input \in ListShowtimesInputs :
       LET issues == ListShowtimesSchema(input)
           t == [tool EXCEPT !.method = "listShowtimes", !.input = <<input>>]
       IN
       tool' = IF issues # <<>> THEN Invalid(t, issues)
               ELSE [t EXCEPT !.pc = "Promise.all", !.adapterCalls = @ + 2]
  /\ UNCHANGED <<browser, browsers, userSessions, call, cleanupPc, cleanupTarget, adapter, server>>

\* a combinator that waits for every promise and, when one has rejected,
\* fulfils with what the others gave
PromiseAllPartial(t, s) ==
  LET q == [t EXCEPT !.settled = Append(@, s)]
      given(slot) ==
        LET hit == SelectSeq(q.settled,
                     LAMBDA x : x.slot = slot /\ x.outcome = "fulfilled") IN
        IF hit = <<>> THEN <<>> ELSE hit[1].value
  IN
  IF Len(q.settled) < 2 THEN q
  ELSE [q EXCEPT !.pc = "done", !.outcome = "fulfilled",
          !.result = <<[showtimes |-> given("getShowtimes"),
                        totalCount |-> Len(given("getShowtimes")),
                        theater |-> given("getTheaterById")]>>]

\* await Promise.all([getShowtimes, getTheaterById]) when the promise s
\* settles: the first rejection rejects the whole and is rethrown at once,
\* the second fulfilment fulfils it and the output is shaped from the two
\* values by position; what settles after the call is over changes nothing
PromiseAll(t, s) ==
  LET q == [t EXCEPT !.settled = Append(@, s)]
      valueOf(slot) == SelectSeq(q.settled, LAMBDA x : x.slot = slot)[1].value
  IN
  IF t.pc = "done" THEN q
  ELSE IF s.outcome = "rejected"
  THEN Rethrow(q, "AMC_API_ERROR", "Failed to fetch showtimes", s.value)
  ELSE IF Len(q.settled) < 2 THEN q
  ELSE [q EXCEPT !.pc = "done", !.outcome = "fulfilled",
          !.result = <<[showtimes |-> valueOf("getShowtimes"),
                        totalCount |-> Len(valueOf("getShowtimes")),
                        theater |-> [id |-> valueOf("getTheaterById").id]]>>]

\* the adapter call of this slot has not settled yet
Unsettled(slot) ==
  /\ tool.method = "listShowtimes"
  /\ tool.pc \in {"Promise.all", "done"}
  /\ tool.settled # <<>> \/ tool.pc = "Promise.all"
  /\ \A j \in 1..Len(tool.settled) : tool.settled[j].slot # slot

\* one of the two adapter calls resolves; with both resolved listShowtimes
\* shapes its output: the theater of the output is the one getTheaterById
\* resolved with
ListShowtimesReturns ==
  /\ \/ /\ Unsettled("getShowtimes")
        /\ \E showtimes \in ShowtimeLists :
             tool' = PromiseAll(tool, [slot |-> "getShowtimes", outcome |-> "fulfilled",
                                       value |-> showtimes])
     \/ /\ Unsettled("getTheaterById")
        /\ \E t \in TheatreIds :
             tool' = PromiseAll(tool, [slot |-> "getTheaterById", outcome |-> "fulfilled",
                                       value |-> [id |-> t]])
  /\ UNCHANGED <<browser, browsers, userSessions, call, cleanupPc, cleanupTarget, adapter, server>>

\* one of the two adapter calls rejects; listShowtimes rethrows the first
\* rejection
ListShowtimesThrows ==
  /\ \E slot \in {"getShowtimes", "getTheaterById"}, e \in AdapterErrors :
       /\ Unsettled(slot)
       /\ tool' = PromiseAll(tool, [slot |-> slot, outcome |-> "rejected", value |-> e])
  /\ UNCHANGED <<browser, browsers, userSessions, call, cleanupPc, cleanupTarget, adapter, server>>

\* listMovies up to its await: no validation, one adapter call
listMovies ==
  /\ tool.pc = "idle"
  /\ tool' = [tool EXCEPT !.pc = "getNowPlayingMovies", !.method = "listMovies",
                !.input = <<[empty |-> TRUE]>>, !.adapterCalls = @ + 1]
  /\ UNCHANGED <<browser, browsers, userSessions, call, cleanupPc, cleanupTarget, adapter, server>>

\* getNowPlayingMovies resolves and listMovies shapes its output
ListMoviesReturns ==
  /\ tool.pc = "getNowPlayingMovies"
  /\ \E movies \in MovieLists :
       tool' = [tool EXCEPT !.pc = "done", !.outcome = "fulfilled",
                  !.result = <<[movies |-> [j \in 1..Len(movies) |-> [id |-> movies[j]]],
                                totalCount |-> Len(movies)]>>]
  /\ UNCHANGED <<browser, browsers, userSessions, call, cleanupPc, cleanupTarget, adapter, server>>

\* getNowPlayingMovies rejects and listMovies rethrows
ListMoviesThrows ==
  /\ tool.pc = "getNowPlayingMovies"
  /\ \E e \in AdapterErrors :
       tool' = Rethrow(tool, "AMC_API_ERROR", "Failed to fetch movies", e)
  /\ UNCHANGED <<browser, browsers, userSessions, call, cleanupPc, cleanupTarget, adapter, server>>

\* a JavaScript number, counted in halves so that 0.5 and 1.5 are there: NaN,
\* and every multiple of one half from -1 to MaxQuantity
JsNumber(h) == [type |-> "number", halves |-> h]
NumberInputs ==
  {[type |-> "undefined", halves |-> 0], [type |-> "string", halves |-> 0],
   [type |-> "nan", halves |-> 0]}
    \cup {JsNumber(h) : h \in (-2)..(2 * MaxQuantity)}

\* max(10, ...) of ReserveTicketsSchema and of BookTicketsSchema
MaxTicketsPerReservation == 10
MaxTicketsPerBooking == 10

\* a count that is only checked against the maximum
TicketCountUnchecked(v, max, message) ==
  IF v.type = "undefined" THEN <<"Required">>
  ELSE IF v.type # "number" THEN <<"Expected number, received " \o v.type>>
  ELSE IF v.halves > 2 * max THEN <<message>>
  ELSE <<>>

\* z.number().int().positive().max(max, message): the issues zod raises
TicketCount(v, max, message) ==
  IF v.type = "undefined" THEN <<"Required">>
  ELSE IF v.type # "number" THEN <<"Expected number, received " \o v.type>>
  ELSE (IF v.halves % 2 # 0 THEN <<"Expected integer, received float">> ELSE <<>>)
         \o (IF v.halves <= 0 THEN <<"Number must be greater than 0">> ELSE <<>>)
         \o (IF v.halves > 2 * max THEN <<message>> ELSE <<>>)

\* the inputs a caller may send to reserve_tickets
ReserveTicketsInputs ==
  [showtimeId : {JsUndefined, JsString(""), JsString("showtime_001")},
   quantity : NumberInputs]

\* ReserveTicketsSchema.parse
ReserveTicketsSchema(input) ==
  RequiredString(input.showtimeId, "Showtime ID is required")
    \o TicketCount(input.quantity, MaxTicketsPerReservation,
                   "Maximum 10 tickets per reservation")

\* a stub that reports the reservation as made
ReservationConfirmed(now) ==
  [reservationId |-> "stub_" \o NumToStr(now), status |-> "confirmed",
   message |-> "Ticket reservation is not yet implemented. This is a stub response for testing purposes."]

\* the stub response, with Date.now() in its id
Reservation(now) ==
  [reservationId |-> "stub_" \o NumToStr(now), status |-> "pending",
   message |-> "Ticket reservation is not yet implemented. This is a stub response for testing purposes."]

\* reserveTickets: validate and answer with the stub; there is no await
reserveTickets ==
  /\ tool.pc = "idle"
  /\ \E input \in ReserveTicketsInputs, now \in 0..MaxTime :
       LET issues == ReserveTicketsSchema(input)
           t == [tool EXCEPT !.method = "reserveTickets", !.input = <<input>>]
       IN
       tool' = IF issues # <<>> THEN Invalid(t, issues)
               ELSE [t EXCEPT !.pc = "done", !.outcome = "fulfilled",
                       !.result = <<Reservation(now)>>]
  /\ UNCHANGED <<browser, browsers, userSessions, call, cleanupPc, cleanupTarget, adapter, server>>

\* z.string().email(): one @ with something before it and a dotted domain
\* after it
EmailTest(s) ==
  \E at \in 2..(Len(s) - 3) :
    /\ s[at] = "@"
    /\ \A j \in 1..Len(s) : s[j] = "@" => j = at
    /\ \E dot \in (at + 2)..(Len(s) - 1) : s[dot] = "."

\* the inputs a caller may send to book_tickets: the e-mail address character
\* by character, seatPreferences left out or an object with a row
BookTicketsInputs ==
  [email : {[type |-> "undefined"]}
             \cup {[type |-> "string", chars |-> e] :
                     e \in {<<"u", "@", "a", ".", "c">>, <<"u", "a", ".", "c">>, <<>>}},
   password : {JsString(""), JsString("userpassword")},
   theaterId : {JsString("610")},
   showtimeId : {JsUndefined, JsString("showtime_001")},
   seatCount : NumberInputs,
   seatPreferences : {Absent, Present([row |-> "middle"]), Present([row |-> "top"])}]

\* BookTicketsSchema.parse
BookTicketsSchema(input) ==
  (IF input.email.type = "undefined" THEN <<"Required">>
   ELSE IF ~EmailTest(input.email.chars) THEN <<"Valid email address is required">>
   ELSE <<>>)
    \o RequiredString(input.password, "Password is required")
    \o RequiredString(input.theaterId, "Theater ID is required")
    \o RequiredString(input.showtimeId, "Showtime ID is required")
    \o TicketCount(input.seatCount, MaxTicketsPerBooking,
                   "Maximum 10 tickets per booking")
    \o (IF /\ input.seatPreferences # Absent
           /\ input.seatPreferences[1].row \notin {"front", "middle", "back"}
        THEN <<"Invalid enum value">> ELSE <<>>)

\* what playwrightService.bookTickets resolves with, and what it rejects with
\* when a close in its finally block throws
DriverResults ==
  {[success |-> TRUE, confirmationNumber |-> "CONF-001"],
   [success |-> FALSE, errorMessage |-> "Login failed - please check your credentials"]}
DriverErrors == {JsError(m) : m \in ErrorMessages}

\* MCPTools.bookTickets up to its await: validate, then call the driver
toolBookTickets ==
  /\ tool.pc = "idle"
  /\ \E input \in BookTicketsInputs :
       LET issues == BookTicketsSchema(input)
           t == [tool EXCEPT !.method = "bookTickets", !.input = <<input>>]
       IN
       tool' = IF issues # <<>> THEN Invalid(t, issues)
               ELSE [t EXCEPT !.pc = "bookTickets", !.driverCalls = @ + 1]
  /\ UNCHANGED <<browser, browsers, userSessions, call, cleanupPc, cleanupTarget, adapter, server>>

\* the driver resolves and its result is returned as it is
BookTicketsReturns ==
  /\ tool.pc = "bookTickets"
  /\ \E result \in DriverResults :
       tool' = [tool EXCEPT !.pc = "done", !.outcome = "fulfilled",
                  !.result = <<result>>]
  /\ UNCHANGED <<browser, browsers, userSessions, call, cleanupPc, cleanupTarget, adapter, server>>

\* the driver rejects and bookTickets rethrows
BookTicketsThrows ==
  /\ tool.pc = "bookTickets"
  /\ \E e \in DriverErrors :
       tool' = Rethrow(tool, "BOOKING_ERROR", "Failed to book tickets", e)
  /\ UNCHANGED <<browser, browsers, userSessions, call, cleanupPc, cleanupTarget, adapter, server>>

\* the promise of the tool call has settled
ToolSettle ==
  /\ tool.pc = "done"
  /\ tool' = NoTool
  /\ UNCHANGED <<browser, browsers, userSessions, call, cleanupPc, cleanupTarget, adapter, server>>

(* ---------------------------- HTTP front end --------------------------- *)
\* process.exit(code)
Exit(s, code) == [s EXCEPT !.pc = "exited", !.exitCode = <<code>>]

\* the module is loaded and startServer runs up to its await: without
\* AMC_API_KEY the process exits, otherwise the key validation is started
startServer ==
  /\ server.pc = "unloaded"
  /\ \E amcApiKey \in {Absent, Present(""), Present("vendor-key")} :
       IF amcApiKey = Absent \/ amcApiKey[1] = ""
       THEN /\ server' = Exit([server EXCEPT !.apiKey = amcApiKey], 1)
            /\ UNCHANGED adapter
       ELSE /\ server' = [server EXCEPT !.pc = "validating", !.apiKey = amcApiKey]
            /\ adapter' = Issue(Enter("validateApiKey", <<>>), "validate",
                                "/movies/views/now-playing", [limit |-> 1])
  /\ UNCHANGED <<browser, browsers, userSessions, call, cleanupPc, cleanupTarget, tool>>

\* a start that does not look at the outcome of the validation
ListenUnchecked(s, outcome, isValid) ==
  [s EXCEPT !.pc = "listening", !.listening = TRUE,
     !.isValid = IF outcome = "fulfilled" THEN <<isValid>> ELSE <<>>]

\* startServer after its await: if (!isValid) process.exit(1), then
\* app.listen; catch (error) { process.exit(1) }
Listen(s, outcome, isValid) ==
  IF outcome = "rejected" THEN Exit(s, 1)
  ELSE IF ~isValid THEN Exit([s EXCEPT !.isValid = <<isValid>>], 1)
  ELSE [s EXCEPT !.pc = "listening", !.listening = TRUE, !.isValid = <<isValid>>]

\* the key validation has settled and startServer goes on
StartServerResumes ==
  /\ server.pc = "validating"
  /\ adapter.pc = "done"
  /\ server' = Listen(server, adapter.outcome, adapter.result[1])
  /\ adapter' = NoAdapter
  /\ UNCHANGED <<browser, browsers, userSessions, call, cleanupPc, cleanupTarget, tool>>

\* what a POST /tools/* handler answers once the tool call has settled:
\* res.json(result), or res.status(400).json({error, message}) in its catch
HandlerResponse(t) ==
  IF t.outcome = "fulfilled" THEN [status |-> 200, body |-> t.result[1]]
  ELSE [status |-> 400,
        body |-> [error |-> StringOr(Present(t.result[1].error), "UNKNOWN_ERROR"),
                  message |-> StringOr(Present(t.result[1].message),
                                       "An unknown error occurred")]]

\* the handler's await ends and it answers the request
HandlerResponds ==
  /\ tool.pc = "done"
  /\ tool' = [tool EXCEPT !.pc = "responded", !.response = <<HandlerResponse(tool)>>]
  /\ UNCHANGED <<browser, browsers, userSessions, call, cleanupPc, cleanupTarget, adapter, server>>

\* the request is over
HandlerSettle ==
  /\ tool.pc = "responded"
  /\ tool' = NoTool
  /\ UNCHANGED <<browser, browsers, userSessions, call, cleanupPc, cleanupTarget, adapter, server>>

(* --------------------------- specification ----------------------------- *)
\* the steps of a call that is under way
Continue(c) ==
  \/ LaunchOk(c)
  \/ LaunchFail(c)
  \/ VisibleDelayDone(c)
  \/ NewContext(c)
  \/ NewPage(c)
  \/ Navigate(c)
  \/ handleLogin(c)
  \/ GotoShowtime(c)
  \/ EnumerateSeats(c)
  \/ ClickSeat(c)
  \/ VerifySeats(c)
  \/ ContinueStep(c)
  \/ ConfirmStep(c)
  \/ WaitConfirmation(c)
  \/ ExtractConfirmation(c)
  \/ ClosePage(c)
  \/ CloseContext(c)

NoneInFlight == \A c \in Calls : call[c].pc = "idle"
NoneDone == \A c \in Calls : call[c].pc # "done"

\* A settled call is observed and its frame dropped before anything else
\* moves: a finished call takes part in nothing that follows.

\* Bookings one at a time (the cooperative use the service is written for),
\* with cleanup() at any moment.
Next ==
  \/ \E c \in Calls : Settle(c)
  \/ /\ NoneDone
     /\ \/ \E c \in Calls : NoneInFlight /\ bookTickets(c, BookingInputs)
        \/ \E c \in Calls : Continue(c)
        \/ cleanup
        \/ CleanupClosed
        \/ CleanupFailed

Spec == Init /\ [][Next]_vars

\* Bookings one at a time with cleanup() at any moment, and no booking
\* started once cleanup() has completed.
NextCleanup ==
  \/ \E c \in Calls : Settle(c)
  \/ /\ NoneDone
     /\ \/ \E c \in Calls :
             NoneInFlight /\ cleanupPc # "done" /\ bookTickets(c, BookingInputs)
        \/ \E c \in Calls : Continue(c)
        \/ cleanup
        \/ CleanupClosed
        \/ CleanupFailed

SpecCleanup == Init /\ [][NextCleanup]_vars

\* Overlapping bookings on one service instance, with no cleanup() in between.
NextConcurrent ==
  \/ \E c \in Calls : Settle(c)
  \/ /\ NoneDone
     /\ \/ \E c \in Calls : bookTickets(c, ConcurrentInputs)
        \/ \E c \in Calls : Continue(c)

SpecConcurrent == Init /\ [][NextConcurrent]_vars

\* Bookings of one caller, one at a time, with and without seat preferences
\* and with and without the benefit flag; no cleanup() in between.
NextFlows ==
  \/ \E c \in Calls : Settle(c)
  \/ /\ NoneDone
     /\ \/ \E c \in Calls : NoneInFlight /\ bookTickets(c, PreferenceInputs)
        \/ \E c \in Calls : NoneInFlight /\ bookTicketsWithAList(c, PreferenceInputs)
        \/ \E c \in Calls : Continue(c)
        \/ \E c \in Calls : enableAListReservation(c)

SpecFlows == Init /\ [][NextFlows]_vars

\* list_theaters calls, one at a time
NextListTheaters ==
  \/ listTheaters
  \/ ListTheatersReturns
  \/ ListTheatersThrows
  \/ ToolSettle

SpecListTheaters == Init /\ [][NextListTheaters]_vars

\* calls of the five tools, one at a time, the adapter and the driver
\* answering in any way
NextTools ==
  \/ listTheaters
  \/ ListTheatersReturns
  \/ ListTheatersThrows
  \/ listMovies
  \/ ListMoviesReturns
  \/ ListMoviesThrows
  \/ listShowtimes
  \/ ListShowtimesReturns
  \/ ListShowtimesThrows
  \/ reserveTickets
  \/ toolBookTickets
  \/ BookTicketsReturns
  \/ BookTicketsThrows
  \/ ToolSettle

SpecTools == Init /\ [][NextTools]_vars

\* calls of the adapter's methods, one at a time, the vendor answering each
\* request in any way
NextAdapter ==
  \/ getNowPlayingMovies
  \/ NowPlayingResponds
  \/ getTheatersByZip
  \/ SuggestionsRespond
  \/ LocationsRespond
  \/ TheatresRespond
  \/ getTheaterById
  \/ TheatreResponds
  \/ getShowtimes
  \/ ShowtimesRespond
  \/ validateApiKey
  \/ ValidateResponds
  \/ AdapterSettle

SpecAdapter == Init /\ [][NextAdapter]_vars

\* the server process: start-up, then the POST /tools/* requests, one at a
\* time, once it listens
NextServer ==
  \/ startServer
  \/ ValidateResponds
  \/ StartServerResumes
  \/ /\ server.listening
     /\ \/ listTheaters
        \/ listMovies
        \/ listShowtimes
        \/ reserveTickets
  \/ ListTheatersReturns
  \/ ListTheatersThrows
  \/ ListMoviesReturns
  \/ ListMoviesThrows
  \/ ListShowtimesReturns
  \/ ListShowtimesThrows
  \/ HandlerResponds
  \/ HandlerSettle

SpecServer == Init /\ [][NextServer]_vars

(* ------------------------------ claims --------------------------------- *)
Result(c) == call[c].returned[1]
Finished(c) == call[c].pc = "done"
Fulfilled(c) == call[c].pc = "done" /\ call[c].outcome = "fulfilled"
Clicked(c, target) == \E j \in 1..Len(call[c].pageLog) : call[c].pageLog[j].target = target
HasConfirmationNumber(res) ==
  "confirmationNumber" \in DOMAIN res /\ res.confirmationNumber # ""

\* C1: every result of bookTickets, on every path, has success = true exactly
\* when it carries a non-empty confirmationNumber.
C1_SuccessIffConfirmation ==
  \A c \in Calls :
    call[c].returned # <<>> => (Result(c).success <=> HasConfirmationNumber(Result(c)))

\* a booking returned success with the confirmation number read from the page
C1_Witness ==
  \E c \in Calls :
    /\ Fulfilled(c)
    /\ Result(c).success
    /\ Result(c).confirmationNumber = "CONF-001"
    /\ Clicked(c, "confirmationShown")

\* C2: with a < n available seats the call returns
\* {success:false, errorMessage:'Only a seats available, requested n'} and
\* clicks no seat.
C2_InsufficientSeats ==
  \A c \in Calls :
    (Finished(c) /\ call[c].availableSeats >= 0
       /\ call[c].availableSeats < call[c].seatCount)
    => /\ call[c].outcome = "fulfilled"
       /\ Result(c) = [success |-> FALSE,
                       errorMessage |-> "Only " \o ToString(call[c].availableSeats)
                                          \o " seats available, requested "
                                          \o ToString(call[c].seatCount)]
       /\ ~Clicked(c, "seat")

\* C3: when the confirmation indicator appeared but no confirmation number
\* could be extracted, the call returns success:false with the message
\* 'Booking completed but no confirmation number found'.
C3_MissingConfirmation ==
  \A c \in Calls :
    (Finished(c) /\ Clicked(c, "confirmationShown")
       /\ call[c].confirmationNumber # <<>>
       /\ call[c].confirmationNumber[1] \in {JsNull, JsString("")})
    => /\ call[c].outcome = "fulfilled"
       /\ Result(c) = [success |-> FALSE,
                       errorMessage |-> "Booking completed but no confirmation number found"]

\* C4: bookTickets never rejects, whatever step fails.
C4_NeverRejects == \A c \in Calls : call[c].outcome # "rejected"

\* C5: when a call has finished, the context and the page it opened are closed.
C5_AllClosed ==
  \A c \in Calls :
    Finished(c) => \/ ~Alive(call[c])
                   \/ /\ call[c].page \in {"null", "closed"}
                      /\ call[c].context \in {"null", "closed"}

\* C6: overlapping bookings launch the browser at most once, and every
\* launched browser that is open is the one the service holds.
C6_SingleLaunch ==
  /\ Len(browsers) <= 1
  /\ \A b \in 1..Len(browsers) : browsers[b] = "open" => browser = b

ActiveEntry(m, e) ==
  \E j \in 1..Len(getActiveSessions(m)) :
    /\ getActiveSessions(m)[j].key = e
    /\ getActiveSessions(m)[j].value.email = e

\* the step in which call c returns success:true
ReturnsSuccess(c) ==
  /\ call[c].returned = <<>>
  /\ call'[c].returned # <<>>
  /\ call'[c].returned[1].success

\* C7: the step in which a call for email e returns success:true leaves an
\* active entry for e in the session map, an entry leaves the map only when
\* cleanup() clears it, and the map never holds two entries for one email.
C7_SessionPerEmail ==
  [][ /\ \A c \in Calls : ReturnsSuccess(c) => ActiveEntry(userSessions', call'[c].email)
      /\ \A e \in Emails :
           (ActiveEntry(userSessions, e) /\ ~ActiveEntry(userSessions', e))
           => (cleanupPc # "done" /\ cleanupPc' = "done")
      /\ \A j, k \in 1..Len(userSessions') :
           j # k => userSessions'[j].key # userSessions'[k].key ]_vars

\* a repeat success for the email of the first entry, with a second email stored
C7_Witness ==
  \E c \in Calls :
    /\ Fulfilled(c)
    /\ Result(c).success
    /\ Len(userSessions) = 2
    /\ userSessions[1].key = call[c].email

\* C8: no seat is clicked before handleLogin answered true, and no
\* continue/confirm control is clicked before selectSeats answered success.
C8_StrictOrder ==
  \A c \in Calls :
    /\ Clicked(c, "seat") => call[c].loginSuccess = "true"
    /\ (Clicked(c, "continue") \/ Clicked(c, "confirm"))
         => (call[c].loginSuccess = "true" /\ call[c].seatSelection = "success")

\* seats and both checkout controls were clicked in one call
C8_Witness ==
  \E c \in Calls :
    /\ Clicked(c, "seat")
    /\ Clicked(c, "continue")
    /\ Clicked(c, "confirm")

\* the framings in which a message can carry a text
MessagePrefixes ==
  {"", "Login failed: ", "Login failed - ", "Booking automation failed: "}
Carries(msg, t) == \E pre \in MessagePrefixes : msg = pre \o t

\* C9 as stated: the failure result of a login that failed with a visible
\* error element carries the text scraped from it.
C9_ErrorTextSurfaced ==
  \A c \in Calls :
    (call[c].returned # <<>> /\ call[c].loginSuccess = "false"
       /\ call[c].errorText # <<>>)
    => Carries(Result(c).errorMessage, call[c].errorText[1])

\* C9 amended: the scraped text is only logged; every result of a call whose
\* login failed is the fixed 'Login failed - please check your credentials'.
C9_FixedLoginMessage ==
  \A c \in Calls :
    (call[c].returned # <<>> /\ call[c].loginSuccess = "false")
    => Result(c) = [success |-> FALSE,
                    errorMessage |-> "Login failed - please check your credentials"]

\* a call whose login failed with a scraped error text has returned
C9_Witness ==
  \E c \in Calls :
    /\ Fulfilled(c)
    /\ call[c].loginSuccess = "false"
    /\ call[c].errorText = <<"Invalid credentials">>

\* a ZIP of 5 digits, or of 5 digits, a hyphen and 4 digits
DigitChars == {ch \in ZipAlphabet : IsDigit(ch)}
WellFormedZip(input) ==
  /\ input.zip.type = "string"
  /\ \/ input.zip.chars \in [1..5 -> DigitChars]
     \/ \E a \in [1..5 -> DigitChars], b \in [1..4 -> DigitChars] :
          input.zip.chars = a \o <<"-">> \o b

\* C10: for every input whose zip is not 5 digits or 5+4 digits with a
\* hyphen (a missing or empty zip included) listTheaters fails with
\* VALIDATION_ERROR and calls the adapter not once.
C10_MalformedZipRejected ==
  (tool.input # <<>> /\ ~WellFormedZip(tool.input[1]))
  => /\ tool.pc = "done"
     /\ tool.outcome = "rejected"
     /\ tool.result[1].error = "VALIDATION_ERROR"
     /\ tool.adapterCalls = 0

\* a ZIP with a well-formed head and a bad tail was rejected
C10_Witness ==
  /\ tool.pc = "done"
  /\ tool.input = <<[zip |-> [type |-> "string",
                              chars |-> <<"9", "9", "9", "9", "9", "-", "9", "9", "9", "x">>]]>>
  /\ tool.result[1].error = "VALIDATION_ERROR"

\* a ZIP of exactly 5 digits
FiveDigitZip(input) ==
  input.zip.type = "string" /\ input.zip.chars \in [1..5 -> DigitChars]

\* C11 as stated: for every valid 5-digit ZIP listTheaters returns a list and
\* never throws, whatever the vendor API answers.
C11_NeverThrows ==
  (tool.method = "listTheaters" /\ tool.pc = "done"
     /\ FiveDigitZip(tool.input[1]))
  => tool.outcome = "fulfilled"

\* C11: for every valid 5-digit ZIP listTheaters calls the adapter once and
\* either returns a list (possibly empty) whose totalCount is its length or,
\* when the adapter call fails, rejects with AMC_API_ERROR 'Failed to fetch
\* theaters'; it never rejects such an input with VALIDATION_ERROR.
C11_ListOrApiError ==
  (tool.method = "listTheaters" /\ tool.pc = "done"
     /\ FiveDigitZip(tool.input[1]))
  => /\ tool.adapterCalls = 1
     /\ \/ /\ tool.outcome = "fulfilled"
           /\ tool.result[1].totalCount = Len(tool.result[1].theaters)
        \/ /\ tool.outcome = "rejected"
           /\ tool.result[1].error = "AMC_API_ERROR"
           /\ tool.result[1].message = "Failed to fetch theaters"

\* a valid 5-digit ZIP whose adapter call failed
C11_Witness ==
  /\ tool.method = "listTheaters"
  /\ tool.pc = "done"
  /\ FiveDigitZip(tool.input[1])
  /\ tool.outcome = "rejected"
  /\ tool.result[1].error = "AMC_API_ERROR"

\* C12: for every successful listShowtimes call the id of the theater in the
\* output equals the theaterId of the input.
C12_TheaterMatchesInput ==
  (tool.method = "listShowtimes" /\ tool.pc = "done"
     /\ tool.outcome = "fulfilled")
  => tool.result[1].theater.id = tool.input[1].theaterId.value

\* the tool call was rejected by the validation of its input
ValidationError ==
  /\ tool.pc = "done"
  /\ tool.outcome = "rejected"
  /\ tool.result[1].error = "VALIDATION_ERROR"

\* a JavaScript number that is one of the integers 1..10
OneToTen(v) == v.type = "number" /\ v.halves \in {2 * n : n \in 1..10}

\* a string with at least one character
NonEmptyString(v) == v.type = "string" /\ v.value # ""

\* C13: reserveTickets never calls the vendor API adapter or the browser
\* automation driver and leaves their state as it was; for every valid input
\* (a non-empty showtimeId and a quantity among the integers 1..10) it
\* resolves with status exactly 'pending'.
C13_ReserveIsStub ==
  tool.method = "reserveTickets"
  => /\ tool.adapterCalls = 0
     /\ tool.driverCalls = 0
     /\ adapter = NoAdapter
     /\ browser = 0 /\ browsers = <<>> /\ userSessions = <<>>
     /\ \A c \in Calls : call[c] = NoCall
     /\ (NonEmptyString(tool.input[1].showtimeId) /\ OneToTen(tool.input[1].quantity))
        => /\ tool.pc = "done"
           /\ tool.outcome = "fulfilled"
           /\ tool.result[1].status = "pending"

\* a valid reservation request was answered
C13_Witness ==
  /\ tool.method = "reserveTickets"
  /\ tool.pc = "done"
  /\ tool.outcome = "fulfilled"
  /\ tool.input[1].quantity = JsNumber(4)

\* C14: reserve_tickets rejects with VALIDATION_ERROR every quantity, and
\* book_tickets every seatCount, that is not one of the integers 1..10 (0, 11,
\* negative numbers, non-integers), and accepts each of 1..10 when the other
\* members of the input are valid.
C14_TicketCountBounds ==
  /\ tool.method = "reserveTickets"
     => /\ ~OneToTen(tool.input[1].quantity) => ValidationError
        /\ (OneToTen(tool.input[1].quantity)
              /\ NonEmptyString(tool.input[1].showtimeId))
           => ~ValidationError
  /\ tool.method = "bookTickets"
     => /\ ~OneToTen(tool.input[1].seatCount) => ValidationError
        /\ (OneToTen(tool.input[1].seatCount)
              /\ BookTicketsSchema([tool.input[1] EXCEPT !.seatCount = JsNumber(2)]) = <<>>)
           => ~ValidationError

\* a booking of 10 seats passed the validation and reached the driver
C14_Witness ==
  /\ tool.method = "bookTickets"
  /\ tool.pc = "bookTickets"
  /\ tool.driverCalls = 1
  /\ tool.input[1].seatCount = JsNumber(20)

\* the error kind a tool method rethrows with
ErrorKind(method) ==
  CASE method = "bookTickets" -> "BOOKING_ERROR"
    [] method = "reserveTickets" -> "RESERVATION_ERROR"
    [] OTHER -> "AMC_API_ERROR"

\* C15: every adapter or driver error that reaches a tool method is rethrown
\* as that tool's error kind and carries the original error's message as its
\* detail, the adapter's typed HTTP-status error included.
C15_DetailIsOriginalMessage ==
  (tool.pc = "done" /\ tool.caught # <<>>)
  => /\ tool.outcome = "rejected"
     /\ tool.result[1].error = ErrorKind(tool.method)
     /\ tool.result[1].code = tool.caught[1].message

\* the adapter call of this method has settled
AdapterDone(method) == adapter.method = method /\ adapter.pc = "done"

\* the answer to the k-th request of the adapter call was a 2xx answer
Answered(k) == Len(adapter.responses) >= k /\ adapter.responses[k].kind = "ok"

\* the first of _embedded.movies, movies and data that holds a non-empty
\* list, the empty list when none does
FirstNonEmptyMovies(body) ==
  IF /\ body.embedded # Absent
     /\ body.embedded[1].movies # Absent
     /\ body.embedded[1].movies[1] # <<>>
  THEN body.embedded[1].movies[1]
  ELSE IF body.movies # Absent /\ body.movies[1] # <<>> THEN body.movies[1]
  ELSE IF body.data # Absent /\ body.data[1] # <<>> THEN body.data[1]
  ELSE <<>>

\* C16: getNowPlayingMovies returns the first of _embedded.movies, movies and
\* data that holds a non-empty list, the empty list when none does, and does
\* not throw on a parseable answer, whatever its shape.
C16_FirstNonEmpty ==
  (AdapterDone("getNowPlayingMovies") /\ Answered(1))
  => /\ adapter.outcome = "fulfilled"
     /\ adapter.result[1] =
          IF adapter.responses[1].data = Absent THEN <<>>
          ELSE FirstNonEmptyMovies(adapter.responses[1].data[1])

\* the body carries a list under exactly one of the three locations
CarriedLists(body) ==
  (IF body.embedded # Absent /\ body.embedded[1].movies # Absent
   THEN <<body.embedded[1].movies[1]>> ELSE <<>>)
    \o body.movies \o body.data
CarriesOneList(body) ==
  /\ Len(CarriedLists(body)) = 1
  /\ body.embedded # Absent => body.embedded[1].movies # Absent

\* C17: when the vendor's answer carries a movie list L under exactly one of
\* data, movies and _embedded.movies, getNowPlayingMovies returns L, the same
\* for the three envelopes.
C17_SameListUnderEachEnvelope ==
  (AdapterDone("getNowPlayingMovies") /\ Answered(1)
     /\ adapter.responses[1].data # Absent
     /\ CarriesOneList(adapter.responses[1].data[1]))
  => /\ adapter.outcome = "fulfilled"
     /\ adapter.result[1] = CarriedLists(adapter.responses[1].data[1])[1]

\* a list of two movies arrived under data and was returned
C17_Witness ==
  /\ AdapterDone("getNowPlayingMovies")
  /\ adapter.responses[1] =
       OkResponse(Present([embedded |-> Absent, movies |-> Absent,
                           data |-> Present(<<"m1", "m2">>)]))
  /\ adapter.result = <<(<<"m1", "m2">>)>>

\* the first suggestion of a 2xx suggestions answer yields a latitude and a
\* longitude: it has the locations link, and the link's href is a URL with
\* both query parameters
FirstSuggestion(data) ==
  IF \/ data = Absent
     \/ data[1].embedded = Absent
     \/ data[1].embedded[1].suggestions = Absent
     \/ data[1].embedded[1].suggestions[1] = <<>>
  THEN Absent
  ELSE Present(data[1].embedded[1].suggestions[1][1])
HrefOf(suggestion) ==
  IF \/ suggestion.links = Absent
     \/ suggestion.links[1].locations = Absent
  THEN Absent
  ELSE suggestion.links[1].locations[1].href
YieldsCoordinates(data) ==
  /\ FirstSuggestion(data) # Absent
  /\ HrefOf(FirstSuggestion(data)[1]) # Absent
  /\ LET url == HrefOf(FirstSuggestion(data)[1])[1] IN
     url.valid /\ url.latitude # Absent /\ url.longitude # Absent

\* C18: getTheatersByZip first queries the location-suggestion endpoint with
\* the ZIP; when the first suggestion yields a latitude and a longitude the
\* second request is the coordinate search with them; when the answer has no
\* suggestion or no usable coordinates the second request is the only other
\* one, goes to the legacy ZIP search with the ZIP and the radius (25 unless
\* given), and its list, or an empty list, is what the call returns.
C18_TwoStepResolution ==
  adapter.method = "getTheatersByZip"
  => /\ adapter.requests[1].url = "/location-suggestions"
     /\ adapter.requests[1].params.query = adapter.args[1]
     /\ (Answered(1) /\ YieldsCoordinates(adapter.responses[1].data))
        => /\ adapter.requests[2].url = "/locations"
           /\ adapter.requests[2].params.latitude =
                ParseFloat(HrefOf(FirstSuggestion(adapter.responses[1].data)[1])[1].latitude[1])
           /\ adapter.requests[2].params.longitude =
                ParseFloat(HrefOf(FirstSuggestion(adapter.responses[1].data)[1])[1].longitude[1])
     /\ (Answered(1) /\ ~YieldsCoordinates(adapter.responses[1].data))
        => /\ Len(adapter.requests) = 2
           /\ adapter.requests[2].url = "/theatres"
           /\ adapter.requests[2].params.zipCode = adapter.args[1]
           /\ adapter.requests[2].params.radius =
                (IF Len(adapter.args) = 2 THEN adapter.args[2] ELSE 25)
           /\ (adapter.pc = "done" /\ Answered(2))
              => /\ adapter.outcome = "fulfilled"
                 /\ \/ adapter.result[1] = <<>>
                    \/ /\ adapter.responses[2].data # Absent
                       /\ \E l \in {adapter.responses[2].data[1].theatres,
                                    adapter.responses[2].data[1].data} :
                            /\ l # Absent
                            /\ adapter.result[1] =
                                 [j \in 1..Len(l[1]) |-> [id |-> l[1][j]]]

\* the answer that ended the adapter call, and the error the claim expects
\* for it: for a non-2xx answer an object with the status as its code and the
\* vendor's message, or the default one, as its message; for a failure
\* without an answer the error itself
LastResponse == adapter.responses[Len(adapter.responses)]
VendorMessage(data) ==
  IF data # Absent /\ data[1].message \notin {Absent, Present("")}
  THEN data[1].message[1]
  ELSE "AMC API request failed"
SurfacesTyped ==
  /\ adapter.outcome = "rejected"
  /\ IF LastResponse.kind = "http"
     THEN /\ ~adapter.result[1].instanceOfError
          /\ adapter.result[1].code = NumToStr(LastResponse.status)
          /\ adapter.result[1].message = VendorMessage(LastResponse.data)
     ELSE adapter.result[1] = JsError(LastResponse.message)

\* C19 as stated: every adapter method rejects when a request of it is
\* answered non-2xx, with the typed error, or gets no answer, with the
\* original error.
C19_EveryMethodRejects ==
  (adapter.pc = "done" /\ LastResponse.kind # "ok") => SurfacesTyped

\* C19: every adapter method other than validateApiKey rejects when a request
\* of it is answered non-2xx or gets no answer: with an AMCError object whose
\* code is the HTTP status and whose message is the vendor's message (the
\* default one when there is none) in the first case, with the original
\* error in the second; validateApiKey resolves to false in both cases.
C19_TypedOrOriginalError ==
  (adapter.pc = "done" /\ LastResponse.kind # "ok")
  => IF adapter.method = "validateApiKey"
     THEN adapter.outcome = "fulfilled" /\ adapter.result = <<FALSE>>
     ELSE SurfacesTyped

\* the suggestions request of getTheatersByZip was answered 401 with the
\* vendor's message, and the call rejected with it
C19_Witness ==
  /\ AdapterDone("getTheatersByZip")
  /\ adapter.responses =
       <<[kind |-> "http", status |-> 401,
          data |-> Present([message |-> Present("Unauthorized")])]>>
  /\ adapter.result[1].code = "401"
  /\ adapter.result[1].message = "Unauthorized"

\* C20: validateApiKey issues exactly one request, the now-playing request
\* with limit 1, and resolves to true when it is answered 2xx and to false
\* when it fails in any way; it never rejects.
C20_ValidateNeverRejects ==
  adapter.method = "validateApiKey"
  => /\ adapter.requests =
          <<[url |-> "/movies/views/now-playing", params |-> [limit |-> 1]]>>
     /\ adapter.outcome # "rejected"
     /\ adapter.pc = "done"
        => /\ adapter.outcome = "fulfilled"
           /\ adapter.result = <<adapter.responses[1].kind = "ok">>

\* the request of validateApiKey got no answer and the call resolved to false
C20_Witness ==
  /\ AdapterDone("validateApiKey")
  /\ adapter.responses[1].kind = "network"
  /\ adapter.outcome = "fulfilled"
  /\ adapter.result = <<FALSE>>

\* the tool call failed on its input (the schema's error) and not on a fault
\* of the adapter behind it
FailedOnInput(t) == t.outcome = "rejected" /\ t.caught = <<>>

\* C21: a POST tool endpoint answers HTTP 400 with an {error, message} pair
\* when the tool fails with a validation error, and HTTP 500 when the tool
\* fails with an unexpected fault (a vendor API error, a network failure).
C21_StatusByFaultKind ==
  (tool.pc = "responded" /\ tool.outcome = "rejected")
  => /\ DOMAIN tool.response[1].body = {"error", "message"}
     /\ tool.response[1].status = IF FailedOnInput(tool) THEN 400 ELSE 500

\* the environment has no usable AMC_API_KEY
KeyAbsent == server.apiKey = Absent \/ server.apiKey = Present("")

\* C22: the server listens only after the start-up key validation has
\* returned true; when the API key is absent, or the validation returns false
\* or fails, the process has exited with a non-zero code, and a process that
\* has exited never listens.
C22_ListensOnlyWhenValid ==
  /\ [](/\ server.listening
           => /\ ~KeyAbsent
              /\ server.isValid = <<TRUE>>
              /\ server.exitCode = <<>>
        /\ (server.pc # "unloaded" /\ (KeyAbsent \/ server.isValid = <<FALSE>>))
           => /\ server.pc = "exited"
              /\ server.exitCode # <<>>
              /\ server.exitCode[1] # 0
              /\ ~server.listening
        /\ server.pc = "validating"
           => /\ ~server.listening
              /\ adapter.method = "validateApiKey")
  /\ [][server.pc = "exited" => server' = server]_vars

\* the validation of a present key returned true and the server listens
C22_Witness ==
  /\ server.listening
  /\ server.isValid = <<TRUE>>
  /\ server.apiKey = Present("vendor-key")

\* the targets of the clicks of a call, in the order the page saw them
Targets(r) == [j \in 1..Len(r.pageLog) |-> r.pageLog[j].target]

\* the step of the flow a click belongs to: seat selection, the benefit
\* opt-in, checkout
Stage(target) ==
  CASE target = "seat" -> 1
    [] target \in {"aListCheckbox", "aListButton"} -> 2
    [] OTHER -> 3

\* the call has begun to check out
InCheckout(r) ==
  \/ r.pc \in {"continue", "confirm", "waitConfirmation", "extract"}
  \/ \E j \in 1..Len(r.pageLog) : Stage(r.pageLog[j].target) = 3

SeatClicks(r) ==
  LET seats == SelectSeq(r.pageLog, LAMBDA en : en.target = "seat") IN
  [j \in 1..Len(seats) |-> seats[j].index]

\* the first n seats of the enumerated list, in enumeration order
FirstSeats(n) == [j \in 1..n |-> j - 1]

\* selectSeats has clicked its way through the loop
SeatsClicked(r) == r.pc = "verifySeats" \/ r.seatSelection = "success"

C25_MismatchFailsBeforeCheckout ==
  \A c \in Calls :
    LET r == call[c] IN
    /\ r.seatSelection = "success" => r.selectedCount = r.seatCount
    /\ (r.selectedCount >= 0 /\ r.selectedCount # r.seatCount)
         => /\ r.seatSelection = "failure"
            /\ ~InCheckout(r)
            /\ Finished(c) => (r.outcome = "fulfilled" /\ ~Result(c).success)

\* how the listShowtimes call under way ends when its two adapter calls
\* settle in this order
OutcomeInOrder(first, second) ==
  LET started == [tool EXCEPT !.pc = "Promise.all", !.settled = <<>>,
                    !.caught = <<>>, !.outcome = "pending", !.result = <<>>]
      ended == PromiseAll(PromiseAll(started, first), second)
  IN [outcome |-> ended.outcome, result |-> ended.result]

\* both adapter calls of the listShowtimes call under way have settled
BothSettled == tool.method = "listShowtimes" /\ Len(tool.settled) = 2

\* one of the settled adapter calls rejected
SomeRejected == \E j \in 1..Len(tool.settled) : tool.settled[j].outcome = "rejected"

\* both adapter calls are under way before either has answered
BothIssued ==
  (tool.method = "listShowtimes" /\ tool.pc = "Promise.all")
  => (tool.adapterCalls = 2 /\ Len(tool.settled) <= 1)

\* C26 as stated: listShowtimes starts both adapter calls before awaiting
\* either; its outcome is the same whichever answer arrives first; if either
\* call fails the whole call fails with AMC_API_ERROR and no partial output.
C26_OrderIndependent ==
  /\ BothIssued
  /\ BothSettled
       => /\ tool.outcome # "pending"
          /\ [outcome |-> tool.outcome, result |-> tool.result]
               = OutcomeInOrder(tool.settled[1], tool.settled[2])
          /\ OutcomeInOrder(tool.settled[1], tool.settled[2])
               = OutcomeInOrder(tool.settled[2], tool.settled[1])
          /\ SomeRejected
               => /\ tool.outcome = "rejected"
                  /\ tool.result[1].error = "AMC_API_ERROR"

\* C26, amended: both adapter calls are started before either is awaited;
\* whichever answer arrives first, the call fulfils with the same output when
\* both succeeded and rejects with AMC_API_ERROR 'Failed to fetch showtimes'
\* and no output when either failed; only the detail of that error depends
\* on the order: it is the detail of the rejection that arrived first.
C26_SameKindEitherOrder ==
  /\ BothIssued
  /\ (tool.method = "listShowtimes" /\ SomeRejected)
       => /\ tool.outcome = "rejected"
          /\ DOMAIN tool.result[1] = {"error", "message", "code"}
  /\ BothSettled
       => LET a == tool.settled[1]
              b == tool.settled[2]
              here == OutcomeInOrder(a, b)
              there == OutcomeInOrder(b, a)
              firstRejected == IF a.outcome = "rejected" THEN a ELSE b
          IN
          /\ [outcome |-> tool.outcome, result |-> tool.result] = here
          /\ here.outcome = there.outcome
          /\ ~SomeRejected => (here.outcome = "fulfilled" /\ here = there)
          /\ SomeRejected
               => /\ here.outcome = "rejected"
                  /\ here.result[1].error = "AMC_API_ERROR"
                  /\ there.result[1].error = "AMC_API_ERROR"
                  /\ here.result[1].message = "Failed to fetch showtimes"
                  /\ there.result[1].message = here.result[1].message
                  /\ here.result[1].code = ErrorDetail(firstRejected.value)

\* the theatre lookup failed first and the showtimes request after it, with
\* another error
C26_Witness ==
  /\ BothSettled
  /\ tool.settled[1].slot = "getTheaterById"
  /\ tool.settled[1].outcome = "rejected"
  /\ tool.settled[2].outcome = "rejected"
  /\ ErrorDetail(tool.settled[1].value) # ErrorDetail(tool.settled[2].value)
  /\ tool.result[1].code = ErrorDetail(tool.settled[1].value)

\* completeBooking has looked at this control and found it visible / hidden
Saw(r, target, visible) ==
  \E j \in 1..Len(r.seen) : r.seen[j] = [target |-> target, visible |-> visible]

\* the number of clicks of a call on this control
Clicks(r, target) ==
  Cardinality({j \in 1..Len(r.pageLog) : r.pageLog[j].target = target})

\* completeBooking has got past both optional controls
PastControls(r) == r.pc \in {"waitConfirmation", "extract"} \/ Len(r.seen) = 2

\* C27: in completeBooking the continue/checkout control and the confirm/book
\* control are each clicked only if visible, continue before confirm; in
\* every case of visibility the flow then waits for the confirmation
\* indicator, and a missing indicator gives success:false with a message
\* that starts with 'Booking completion failed'.
C27_OptionalControlsThenWait ==
  \A c \in Calls :
    LET r == call[c] IN
    ~r.useAList =>
      /\ \A target \in {"continue", "confirm"} :
           /\ Clicks(r, target) = IF Saw(r, target, TRUE) THEN 1 ELSE 0
           /\ ~(Saw(r, target, TRUE) /\ Saw(r, target, FALSE))
      /\ r.seen # <<>> => r.seen[1].target = "continue"
      /\ Len(r.seen) = 2 => r.seen[2].target = "confirm"
      /\ \A j, k \in 1..Len(r.pageLog) :
           (r.pageLog[j].target = "continue" /\ r.pageLog[k].target = "confirm") => j < k
      /\ r.pc \in {"waitConfirmation", "extract"} => Len(r.seen) = 2
      /\ Clicks(r, "confirmationShown") = 1 => Len(r.seen) = 2
      /\ (r.seatSelection = "success" /\ r.returned # <<>>
            /\ Clicks(r, "confirmationShown") = 0)
           => \E m \in ErrorMessages :
                r.returned[1] = [success |-> FALSE,
                                 errorMessage |-> "Booking completion failed: " \o m]

\* neither control was visible, the flow waited for the indicator all the
\* same and the indicator never came
C27_Witness ==
  \E c \in Calls :
    /\ ~call[c].useAList
    /\ call[c].seen = <<[target |-> "continue", visible |-> FALSE],
                        [target |-> "confirm", visible |-> FALSE]>>
    /\ call[c].returned # <<>>
    /\ call[c].returned[1].errorMessage = "Booking completion failed: Timeout exceeded"

\* the vendor endpoints getTheatersByZip may ask: the location suggestions,
\* the coordinate search, the legacy ZIP search
ZipEndpoints == {"/location-suggestions", "/locations", "/theatres"}

\* C28: the adapter never retries: within one adapter operation each vendor
\* endpoint is requested at most once (getTheatersByZip asks each of its
\* three endpoints at most once, every other method makes one request), and
\* a failed request is the last request of the operation.
C28_NoRetry ==
  /\ \A j, k \in 1..Len(adapter.requests) :
       j < k => adapter.requests[j].url # adapter.requests[k].url
  /\ Len(adapter.responses) <= Len(adapter.requests)
  /\ Len(adapter.requests) <= Len(adapter.responses) + 1
  /\ \A j \in 1..Len(adapter.responses) :
       adapter.responses[j].kind # "ok"
         => (Len(adapter.requests) = j /\ adapter.pc = "done")
  /\ IF adapter.method = "getTheatersByZip"
     THEN \A j \in 1..Len(adapter.requests) : adapter.requests[j].url \in ZipEndpoints
     ELSE Len(adapter.requests) <= 1

\* getTheatersByZip asked all three endpoints and the last request failed
C28_Witness ==
  /\ adapter.method = "getTheatersByZip"
  /\ adapter.pc = "done"
  /\ Len(adapter.requests) = 3
  /\ adapter.responses[3].kind = "network"
  /\ adapter.outcome = "rejected"

\* C29: a bookTickets call that returns success:false leaves the session map
\* as it was: every step of a call that changes the map is the step in which
\* that call returns its success, so no entry is added, overwritten or
\* removed on a login failure, insufficient seats, a selection mismatch, a
\* missing confirmation or a caught exception.
C29_FailureKeepsSessions ==
  [][\A c \in Calls :
       (call'[c] # call[c] /\ ~ReturnsSuccess(c)) => userSessions' = userSessions]_vars

\* a call has failed for want of a confirmation number while the map holds
\* the session of an earlier success
C29_Witness ==
  \E c \in Calls :
    /\ call[c].returned # <<>>
    /\ ~call[c].returned[1].success
    /\ call[c].confirmationNumber # <<>>
    /\ Len(userSessions) = 1

\* C30: once cleanup() has completed, and with no bookTickets or initialize
\* call started after that, the service holds no browser handle, every
\* browser it launched is closed and the session map is empty, however
\* cleanup() interleaved with the calls that were in flight.
C30_CleanAfterCleanup ==
  cleanupPc = "done"
  => /\ browser = 0
     /\ \A b \in 1..Len(browsers) : browsers[b] = "closed"
     /\ userSessions = <<>>

====
